---- MODULE Spec2Model ----
(***************************************************************************)
(* Model of the Aqua runtime (src/src/runtime/runtime.cpp): the Channel    *)
(* with its mutex and two condition variables, and the Scheduler's worker  *)
(* pool that runs fibers on OS threads.                                    *)
(***************************************************************************)
EXTENDS Naturals, Sequences, FiniteSets, TLC

\* ------------------------------------------------------------------ bounds
NumThreads == 3      \* OS threads that call into one channel
MaxCap == 2          \* largest capacity given to the Channel constructor
MaxSends == 3        \* Values pushed in one behaviour
MaxWorkers == 2      \* largest num_threads given to the Scheduler constructor
MaxFibers == 3       \* fibers spawned in one behaviour
MaxPtrs == 2         \* identities given to the GarbageCollector
MaxSize == 2         \* largest size given to register_object
MaxTotal == 4        \* largest total_allocated reached in one behaviour
MaxGcThreads == 2    \* threads that call the GarbageCollector
Items == 5           \* Values the producer fiber sends
MaxSets == 3         \* completed set_global calls in one behaviour
MaxLen == 7          \* characters of the input of the Lexer

Threads == 1..NumThreads
FiberIds == 1..MaxFibers

VARIABLES
    buffer,      \* Channel::buffer, the std::queue<Value>, front first
    max_size,    \* Channel::max_size
    closed,      \* Channel::closed
    not_empty,   \* threads blocked inside not_empty.wait
    not_full,    \* threads blocked inside not_full.wait
    pc,          \* per thread: where it is inside a Channel call
    arg,         \* per thread: the Value passed to the send it is in, or NoValue
    ret,         \* the call that returned last: operation and result
    sent,        \* history: the Values pushed by send, in push order
    rcvd,        \* history: the Values popped by receive, in pop order
    mark,        \* history, per thread: pops done when its send last blocked
    running,          \* Scheduler::running
    num_threads,      \* workers.capacity(), reserved by the constructor
    workers,          \* Scheduler::workers, the threads of the pool
    ready_queue,      \* Scheduler::ready_queue, front first
    running_fibers,   \* Scheduler::running_fibers
    waiting_fibers,   \* Scheduler::waiting_fibers
    worker_condition, \* workers blocked inside worker_condition.wait_for
    next_id,          \* Fiber::next_id
    state,            \* per fiber: Fiber::state, "NONE" before the fiber exists
    function,         \* per fiber: the work given to spawn
    wpc,              \* per worker thread: where it is in worker_loop
    cur,              \* per worker thread: the fiber get_next_fiber returned, or 0
    mpc,              \* where the thread that owns the Scheduler is
    id,               \* per fiber: Fiber::id, 0 before the fiber exists
    id_tmp,           \* per thread: the value `next_id++` read, until it writes
    fiber,            \* per thread: the local `fiber` of the spawn it is in, or 0
    enqueued,         \* history: the fibers pushed on ready_queue, in push order
    dequeued,         \* history: the fibers popped from ready_queue, in pop order
    returned,         \* history, kept by LogSpec: the owner's call that returned last
    started,          \* fibers inside the function() of a start() called directly
    objects,          \* GarbageCollector::objects, per identity
    total_allocated,  \* GarbageCollector::total_allocated
    memory_threshold, \* GarbageCollector::memory_threshold
    gc_mutex,         \* the thread that owns GarbageCollector::gc_mutex, or 0
    gpc,              \* per thread: where it is inside a GarbageCollector call
    roots,            \* the identities reachable from the program's roots
    gret,             \* history: the GarbageCollector call that returned last
    plain,            \* history: registrations of new identities only, so far
    holds,            \* per thread: the mutexes it owns
    lpc,              \* per thread: the call it is in, for the mutexes
    inwork,           \* per thread: it is a worker inside a fiber's function()
    chan,             \* per thread: the mutex of the channel it is calling
    traps,            \* concurrent_sum: the build traps on signed overflow
    sum_pc,           \* concurrent_sum: per summing fiber, where it is
    partial_results,  \* concurrent_sum: the values in the channel partial_results
    total_sum,        \* aggregator_fiber: total_sum
    received_count,   \* aggregator_fiber: received_count
    agg_pc,           \* aggregator_fiber: where it is
    final_result,     \* concurrent_sum: the values in the channel final_result
    concurrent_sum,   \* main: concurrent_sum
    main_pc,          \* main: where it is
    slice_sum,        \* concurrent_sum: per slice, its int sum and its exact sum
    globals,          \* Runtime::globals, per name
    globals_mutex,    \* the thread that owns Runtime::globals_mutex, or 0
    gl_pc,            \* per thread: the set_global / get_global call it is in
    gl_ret,           \* history: the globals call that returned last
    set_log,          \* history: the completed set_global calls, in order
    instance,         \* Runtime::instance
    runtimes,         \* the number of Runtime objects constructed
    in_pc,            \* per thread: where it is inside get_instance
    in_new,           \* per thread: the Runtime its `new` made
    got,              \* per thread: the Runtime its last get_instance returned
    locals,           \* per Fiber: Fiber::locals, key to optional value
    last_set,         \* per Fiber and key: the value of the latest set_local
    loc_ret,          \* the latest get_local: its fiber, key and returned value
    input,            \* Lexer::input, a sequence of characters
    index,            \* Lexer::index, counted from 1
    line,             \* Lexer::line
    indentStack,      \* Lexer::indentStack, back last
    atLineStart,      \* Lexer::atLineStart
    tokens,           \* Lexer::tokens
    lex_pc            \* where tokenize is: top or body of its loop, returned, or the error thrown

chanVars == <<buffer, max_size, closed, not_empty, not_full>>
callVars == <<pc, arg, ret>>
histVars == <<sent, rcvd, mark>>
poolVars == <<running, num_threads, workers, worker_condition, wpc, cur, mpc>>
fiberVars == <<ready_queue, running_fibers, waiting_fibers, next_id, state, function>>
ctorVars == <<id, id_tmp, fiber>>
ghostVars == <<enqueued, dequeued, returned, started>>
schedVars == <<poolVars, fiberVars, ctorVars, ghostVars>>
gcVars == <<objects, total_allocated, memory_threshold, gc_mutex, gpc, roots, gret, plain>>
lockVars == <<holds, lpc, inwork, chan>>
sumVars == <<traps, sum_pc, partial_results, total_sum, received_count, agg_pc,
             final_result, concurrent_sum, main_pc, slice_sum>>
globVars == <<globals, globals_mutex, gl_pc, gl_ret, set_log>>
instVars == <<instance, runtimes, in_pc, in_new, got>>
localVars == <<locals, last_set, loc_ret>>
lexVars == <<input, index, line, indentStack, atLineStart, tokens, lex_pc>>
newVars == <<globVars, instVars, localVars, lexVars>>
envVars == <<gcVars, lockVars, sumVars, newVars>>
vars == <<chanVars, callVars, histVars, schedVars, envVars>>

\* ------------------------------------------------------------ return values
\* std::optional<Value> is a sequence of length 0 (nullopt) or 1.
nullopt == <<>>
Some(v) == <<v>>
NoValue == 0
\* The record of a returned call: the operation, its result (ok: send's bool,
\* receive's has_value(), and for the void close whether it found the channel
\* open), the Value received, and whether the call had blocked in a wait.
NoRet == [op |-> "none", ok |-> FALSE, val |-> nullopt, waited |-> FALSE]
SendRet(b, w) == [op |-> "send", ok |-> b, val |-> nullopt, waited |-> w]
ReceiveRet(o, w) == [op |-> "receive", ok |-> o # nullopt, val |-> o, waited |-> w]
CloseRet(first) == [op |-> "close", ok |-> first, val |-> nullopt, waited |-> FALSE]

\* ------------------------------------------------------------ std::queue
Push(q, v) == Append(q, v)
\* Faulty variant of Front: the newest element instead of the oldest.
FrontIsBack(q) == q[Len(q)]
Front(q) == Head(q)
Pop(q) == Tail(q)

\* -------------------------------------------------- condition variables
\* notify_one unblocks one of the waiting threads, if there is any;
\* notify_all unblocks all of them. An unblocked thread still has to take the
\* mutex again and to test its predicate.
NotifyOne(cv) == IF cv = {} THEN {{}} ELSE {{w} : w \in cv}
NotifyAll(cv) == {cv}

Resumed(p) ==
    IF p = "send_wait" THEN "send_woken"
    ELSE IF p = "recv_wait" THEN "recv_woken"
    ELSE p

\* pc after thread t moved to `to` and the threads of W were unblocked.
Moved(t, to, W) ==
    [x \in Threads |-> IF x = t THEN to
                       ELSE IF x \in W THEN Resumed(pc[x])
                       ELSE pc[x]]

\* ---------------------------------------------------------------- Channel
\* Channel::Channel(buffer_size)
ChannelInit ==
    /\ buffer = <<>>
    /\ max_size \in 0..MaxCap
    /\ closed = FALSE
    /\ not_empty = {}
    /\ not_full = {}

\* if (max_size > 0 && buffer.size() >= max_size)
IsFull == max_size > 0 /\ Len(buffer) >= max_size

\* Faulty variant of NotFullPred: off by one, `<=` for `<`.
NotFullPredOffByOne == Len(buffer) <= max_size \/ closed

\* the predicate of not_full.wait: buffer.size() < max_size || closed
NotFullPred == Len(buffer) < max_size \/ closed

\* Faulty variant of NotEmptyPred: the closed flag is not part of the predicate.
NotEmptyPredNoClosed == buffer # <<>>

\* the predicate of not_empty.wait: !buffer.empty() || closed
NotEmptyPred == buffer # <<>> \/ closed

\* The threads that are inside a send, a receive: a call that has not returned
\* is blocked in a wait or was unblocked and is about to take the mutex again.
InSend == {t \in Threads : pc[t] \in {"send_wait", "send_woken"}}
InReceive == {t \in Threads : pc[t] \in {"recv_wait", "recv_woken"}}

\* The Value of the next send call: the k-th Value handed to the channel is k,
\* so that any two Values in the channel differ and a reordering, a loss or a
\* duplication shows in the histories.
NextValue == Len(sent) + Cardinality(InSend) + 1

\* send returns false without touching the buffer.
SendFails(t) ==
    /\ pc' = [pc EXCEPT ![t] = "idle"]
    /\ ret' = SendRet(FALSE, pc[t] = "send_woken")
    /\ arg' = [arg EXCEPT ![t] = NoValue]
    /\ mark' = [mark EXCEPT ![t] = 0]
    /\ UNCHANGED <<chanVars, sent, rcvd>>

\* send blocks in not_full.wait, which releases the mutex.
SendWaits(t, v) ==
    /\ pc' = [pc EXCEPT ![t] = "send_wait"]
    /\ arg' = [arg EXCEPT ![t] = v]
    /\ not_full' = not_full \cup {t}
    /\ mark' = [mark EXCEPT ![t] = Len(rcvd)]
    /\ UNCHANGED <<buffer, max_size, closed, not_empty, ret, sent, rcvd>>

\* Faulty variant of SendPushes: notify_all for notify_one.
SendPushesNotifyAll(t, v) ==
    /\ buffer' = Push(buffer, v)
    /\ sent' = Append(sent, v)
    /\ \E W \in NotifyAll(not_empty) :
          /\ not_empty' = not_empty \ W
          /\ pc' = Moved(t, "idle", W)
    /\ ret' = SendRet(TRUE, pc[t] = "send_woken")
    /\ arg' = [arg EXCEPT ![t] = NoValue]
    /\ mark' = [mark EXCEPT ![t] = 0]
    /\ UNCHANGED <<max_size, closed, not_full, rcvd>>

\* buffer.push(value); not_empty.notify_one(); return true;
SendPushes(t, v) ==
    /\ buffer' = Push(buffer, v)
    /\ sent' = Append(sent, v)
    /\ \E W \in NotifyOne(not_empty) :
          /\ not_empty' = not_empty \ W
          /\ pc' = Moved(t, "idle", W)
    /\ ret' = SendRet(TRUE, pc[t] = "send_woken")
    /\ arg' = [arg EXCEPT ![t] = NoValue]
    /\ mark' = [mark EXCEPT ![t] = 0]
    /\ UNCHANGED <<max_size, closed, not_full, rcvd>>

\* Channel::send(value) from taking the mutex to the return or to the wait.
Send(t, v) ==
    /\ pc[t] = "idle"
    /\ IF closed THEN SendFails(t)
       ELSE IF IsFull /\ ~NotFullPred THEN SendWaits(t, v)
       ELSE SendPushes(t, v)

\* Faulty variant of SendResume: no `if (closed) return false;` after the wait.
SendResumeNoClosedTest(t) ==
    /\ pc[t] = "send_woken"
    /\ IF ~NotFullPred THEN SendWaits(t, arg[t])
       ELSE SendPushes(t, arg[t])

\* Channel::send after not_full.wait was unblocked: the mutex is taken again
\* and the predicate tested; then `if (closed) return false;` and the push.
SendResume(t) ==
    /\ pc[t] = "send_woken"
    /\ IF ~NotFullPred THEN SendWaits(t, arg[t])
       ELSE IF closed THEN SendFails(t)
       ELSE SendPushes(t, arg[t])

\* receive blocks in not_empty.wait, which releases the mutex.
ReceiveWaits(t) ==
    /\ pc' = [pc EXCEPT ![t] = "recv_wait"]
    /\ not_empty' = not_empty \cup {t}
    /\ UNCHANGED <<buffer, max_size, closed, not_full, arg, ret, histVars>>

\* if (buffer.empty() && closed) return std::nullopt;
ReceiveNothing(t) ==
    /\ pc' = [pc EXCEPT ![t] = "idle"]
    /\ ret' = ReceiveRet(nullopt, pc[t] = "recv_woken")
    /\ UNCHANGED <<chanVars, arg, histVars>>

\* Faulty variant of ReceivePops: no not_full.notify_one().
ReceivePopsNoNotify(t) ==
    /\ ret' = ReceiveRet(Some(Front(buffer)), pc[t] = "recv_woken")
    /\ rcvd' = Append(rcvd, Front(buffer))
    /\ buffer' = Pop(buffer)
    /\ pc' = [pc EXCEPT ![t] = "idle"]
    /\ UNCHANGED <<max_size, closed, not_empty, not_full, arg, sent, mark>>

\* Faulty variant of ReceivePops: no buffer.pop().
ReceivePopsKeepsFront(t) ==
    /\ ret' = ReceiveRet(Some(Front(buffer)), pc[t] = "recv_woken")
    /\ rcvd' = Append(rcvd, Front(buffer))
    /\ UNCHANGED buffer
    /\ \E W \in (IF max_size > 0 THEN NotifyOne(not_full) ELSE {{}}) :
          /\ not_full' = not_full \ W
          /\ pc' = Moved(t, "idle", W)
    /\ UNCHANGED <<max_size, closed, not_empty, arg, sent, mark>>

\* Value value(buffer.front()); buffer.pop();
\* if (max_size > 0) not_full.notify_one(); return value;
ReceivePops(t) ==
    /\ ret' = ReceiveRet(Some(Front(buffer)), pc[t] = "recv_woken")
    /\ rcvd' = Append(rcvd, Front(buffer))
    /\ buffer' = Pop(buffer)
    /\ \E W \in (IF max_size > 0 THEN NotifyOne(not_full) ELSE {{}}) :
          /\ not_full' = not_full \ W
          /\ pc' = Moved(t, "idle", W)
    /\ UNCHANGED <<max_size, closed, not_empty, arg, sent, mark>>

\* Channel::receive from taking the mutex to the return or to the wait; the
\* same code runs again each time not_empty.wait was unblocked.
Receive(t) ==
    /\ pc[t] \in {"idle", "recv_woken"}
    /\ IF ~NotEmptyPred THEN ReceiveWaits(t)
       ELSE IF buffer = <<>> /\ closed THEN ReceiveNothing(t)
       ELSE ReceivePops(t)

\* Faulty variant of CloseFlag: close() flips the flag.
CloseFlagToggles == ~closed

\* The value close() stores in the flag.
CloseFlag == TRUE

\* Faulty variant of Close: notify_one for notify_all.
CloseNotifiesOne(t) ==
    /\ pc[t] = "idle"
    /\ closed' = CloseFlag
    /\ \E E \in NotifyOne(not_empty), F \in NotifyOne(not_full) :
          /\ not_empty' = not_empty \ E
          /\ not_full' = not_full \ F
          /\ pc' = Moved(t, "idle", E \cup F)
    /\ ret' = CloseRet(~closed)
    /\ UNCHANGED <<buffer, max_size, arg, histVars>>

\* Channel::close
Close(t) ==
    /\ pc[t] = "idle"
    /\ closed' = CloseFlag
    /\ \E E \in NotifyAll(not_empty), F \in NotifyAll(not_full) :
          /\ not_empty' = not_empty \ E
          /\ not_full' = not_full \ F
          /\ pc' = Moved(t, "idle", E \cup F)
    /\ ret' = CloseRet(~closed)
    /\ UNCHANGED <<buffer, max_size, arg, histVars>>

\* std::condition_variable::wait may return without a notification; the
\* woken thread takes the mutex and tests its predicate like any other.
SpuriousWakeup(t) ==
    /\ pc[t] \in {"send_wait", "recv_wait"}
    /\ not_empty' = not_empty \ {t}
    /\ not_full' = not_full \ {t}
    /\ pc' = [pc EXCEPT ![t] = Resumed(pc[t])]
    /\ UNCHANGED <<buffer, max_size, closed, arg, ret, histVars>>

\* Channel::size, Channel::capacity, Channel::is_closed
size == Len(buffer)
capacity == max_size
is_closed == closed

\* -------------------------------------------------------------- Scheduler
NoFiber == 0
Works == {"send", "receive"}

\* The object std::make_shared<Fiber> creates next: fibers are numbered in
\* the order in which they are constructed.
NewFiber == Cardinality({f \in FiberIds : state[f] # "NONE"}) + 1

\* Threads between the two halves of `next_id++` in the Fiber constructor.
InCtor == {t \in Threads : wpc[t] = "ctor"}

\* Scheduler::Scheduler(num_threads): running(false), workers.reserve(num_threads)
SchedulerInit ==
    /\ running = FALSE
    /\ num_threads \in 1..MaxWorkers
    /\ workers = {}
    /\ ready_queue = <<>>
    /\ running_fibers = <<>>
    /\ waiting_fibers = <<>>
    /\ worker_condition = {}
    /\ next_id = 1
    /\ state = [f \in FiberIds |-> "NONE"]
    /\ function = [f \in FiberIds |-> "none"]
    /\ wpc = [w \in Threads |-> "none"]
    /\ cur = [w \in Threads |-> NoFiber]
    /\ mpc = "idle"
    /\ id = [f \in FiberIds |-> 0]
    /\ id_tmp = [t \in Threads |-> 0]
    /\ fiber = [t \in Threads |-> NoFiber]
    /\ enqueued = <<>>
    /\ dequeued = <<>>
    /\ returned = "none"
    /\ started = {}

\* The threads that workers.capacity() calls of emplace_back add to workers.
NewWorkers == {Cardinality(workers) + i : i \in 1..num_threads}

\* Faulty variant of Start: the test of running is missing.
StartNoGuard ==
    /\ mpc = "idle"
    /\ running' = TRUE
    /\ workers' = workers \cup NewWorkers
    /\ wpc' = [w \in Threads |-> IF w \in NewWorkers THEN "loop" ELSE wpc[w]]
    /\ UNCHANGED <<num_threads, worker_condition, cur, mpc, fiberVars, ctorVars,
                   enqueued, dequeued, started>>

\* Scheduler::start
Start ==
    /\ mpc = "idle"
    /\ IF running
       THEN UNCHANGED <<running, workers, wpc>>
       ELSE /\ running' = TRUE
            /\ workers' = workers \cup NewWorkers
            /\ wpc' = [w \in Threads |-> IF w \in NewWorkers THEN "loop" ELSE wpc[w]]
    /\ UNCHANGED <<num_threads, worker_condition, cur, mpc, fiberVars, ctorVars,
                   enqueued, dequeued, started>>

\* Scheduler::stop up to the joins: running = false; worker_condition.notify_all()
StopBegin ==
    /\ mpc = "idle"
    /\ IF ~running
       THEN UNCHANGED <<running, worker_condition, wpc, mpc>>
       ELSE /\ running' = FALSE
            /\ worker_condition' = {}
            /\ wpc' = [w \in Threads |-> IF w \in worker_condition THEN "loop" ELSE wpc[w]]
            /\ mpc' = "joining"
    /\ UNCHANGED <<num_threads, workers, cur, fiberVars, ctorVars,
                   enqueued, dequeued, started>>

\* Faulty variant of StopJoin: the workers are not joined.
StopJoinNoWait ==
    /\ mpc = "joining"
    /\ workers' = {}
    /\ wpc' = [w \in Threads |-> "none"]
    /\ mpc' = "idle"
    /\ UNCHANGED <<running, num_threads, worker_condition, cur, fiberVars, ctorVars,
                   enqueued, dequeued, started>>

\* Faulty variant of StopJoin: stop also empties the ready queue.
StopJoinClearsQueue ==
    /\ mpc = "joining"
    /\ \A w \in workers : wpc[w] = "exited"
    /\ workers' = {}
    /\ wpc' = [w \in Threads |-> "none"]
    /\ mpc' = "idle"
    /\ ready_queue' = <<>>
    /\ UNCHANGED <<running, num_threads, worker_condition, cur, running_fibers,
                   waiting_fibers, next_id, state, function, ctorVars,
                   enqueued, dequeued, started>>

\* Scheduler::stop, the joins and workers.clear(): join returns once the
\* worker's worker_loop has returned.
StopJoin ==
    /\ mpc = "joining"
    /\ \A w \in workers : wpc[w] = "exited"
    /\ workers' = {}
    /\ wpc' = [w \in Threads |-> "none"]
    /\ mpc' = "idle"
    /\ UNCHANGED <<running, num_threads, worker_condition, cur, fiberVars, ctorVars,
                   enqueued, dequeued, started>>

\* Scheduler::spawn called by the thread that owns the Scheduler: the Fiber
\* constructor (id(next_id++), state(READY)), ready_queue.push(fiber),
\* worker_condition.notify_one()
Spawn(work) ==
    /\ mpc = "idle"
    /\ NewFiber + Cardinality(InCtor) <= MaxFibers
    /\ next_id' = next_id + 1
    /\ id' = [id EXCEPT ![NewFiber] = next_id]
    /\ state' = [state EXCEPT ![NewFiber] = "READY"]
    /\ function' = [function EXCEPT ![NewFiber] = work]
    /\ ready_queue' = Push(ready_queue, NewFiber)
    /\ enqueued' = Append(enqueued, NewFiber)
    /\ \E W \in NotifyOne(worker_condition) :
          /\ worker_condition' = worker_condition \ W
          /\ wpc' = [w \in Threads |-> IF w \in W THEN "loop" ELSE wpc[w]]
    /\ UNCHANGED <<running, num_threads, workers, cur, mpc, running_fibers,
                   waiting_fibers, id_tmp, fiber, dequeued, returned, started>>

\* Faulty variant of WaitAllTest: only the ready queue is tested.
WaitAllTestReadyOnly == ready_queue = <<>>

\* The test of Scheduler::wait_all, made with queue_mutex held
WaitAllTest ==
    /\ ready_queue = <<>>
    /\ running_fibers = <<>>
    /\ waiting_fibers = <<>>

\* Scheduler::wait_all is called
WaitAllCall ==
    /\ mpc = "idle"
    /\ mpc' = "wait_all"
    /\ UNCHANGED <<running, num_threads, workers, worker_condition, wpc, cur,
                   fiberVars, ctorVars, ghostVars>>

\* Scheduler::wait_all, the round of its loop that finds the test true and
\* breaks; a round that finds it false sleeps 1 ms and changes nothing.
WaitAllBreak ==
    /\ mpc = "wait_all"
    /\ WaitAllTest
    /\ mpc' = "idle"
    /\ UNCHANGED <<running, num_threads, workers, worker_condition, wpc, cur,
                   fiberVars, ctorVars, enqueued, dequeued, started>>

\* Faulty variant of get_next_fiber: the newest fiber is taken.
get_next_fiber_lifo(w) ==
    IF ready_queue = <<>>
    THEN /\ cur' = [cur EXCEPT ![w] = NoFiber]
         /\ UNCHANGED <<ready_queue, running_fibers, dequeued>>
    ELSE /\ cur' = [cur EXCEPT ![w] = ready_queue[Len(ready_queue)]]
         /\ ready_queue' = SubSeq(ready_queue, 1, Len(ready_queue) - 1)
         /\ dequeued' = Append(dequeued, ready_queue[Len(ready_queue)])
         /\ running_fibers' =
               IF state[ready_queue[Len(ready_queue)]] = "READY"
               THEN Push(running_fibers, ready_queue[Len(ready_queue)])
               ELSE running_fibers

\* Faulty variant of get_next_fiber: the front fiber is not popped.
get_next_fiber_no_pop(w) ==
    IF ready_queue = <<>>
    THEN /\ cur' = [cur EXCEPT ![w] = NoFiber]
         /\ UNCHANGED <<ready_queue, running_fibers, dequeued>>
    ELSE /\ cur' = [cur EXCEPT ![w] = Front(ready_queue)]
         /\ UNCHANGED ready_queue
         /\ dequeued' = Append(dequeued, Front(ready_queue))
         /\ running_fibers' =
               IF state[Front(ready_queue)] = "READY"
               THEN Push(running_fibers, Front(ready_queue))
               ELSE running_fibers

\* Scheduler::get_next_fiber, called by worker w
get_next_fiber(w) ==
    IF ready_queue = <<>>
    THEN /\ cur' = [cur EXCEPT ![w] = NoFiber]
         /\ UNCHANGED <<ready_queue, running_fibers, dequeued>>
    ELSE /\ cur' = [cur EXCEPT ![w] = Front(ready_queue)]
         /\ ready_queue' = Pop(ready_queue)
         /\ dequeued' = Append(dequeued, Front(ready_queue))
         /\ running_fibers' =
               IF state[Front(ready_queue)] = "READY"
               THEN Push(running_fibers, Front(ready_queue))
               ELSE running_fibers

\* worker_loop: the test of `while (running)` and, when it holds,
\* `auto fiber = get_next_fiber();`. running is a plain bool that stop
\* writes while the workers read it: a worker whose test ran before the
\* write, or read the old value, goes on into get_next_fiber.
WorkerNext(w) ==
    /\ wpc[w] = "loop"
    /\ \/ /\ ~running
          /\ wpc' = [wpc EXCEPT ![w] = "exited"]
          /\ UNCHANGED <<cur, ready_queue, running_fibers, dequeued>>
       \/ /\ get_next_fiber(w)
          /\ wpc' = [wpc EXCEPT ![w] = IF ready_queue = <<>> THEN "nofiber" ELSE "got"]
    /\ UNCHANGED <<running, num_threads, workers, worker_condition, mpc,
                   waiting_fibers, next_id, state, function, ctorVars,
                   enqueued, returned, started>>

\* worker_loop, no fiber: the worker takes queue_mutex and blocks in
\* worker_condition.wait_for(lock, 10ms)
WorkerIdle(w) ==
    /\ wpc[w] = "nofiber"
    /\ wpc' = [wpc EXCEPT ![w] = "cv_wait"]
    /\ worker_condition' = worker_condition \cup {w}
    /\ UNCHANGED <<running, num_threads, workers, cur, mpc, fiberVars, ctorVars, ghostVars>>

\* Faulty variant of WorkerTimeout: the wait has no timeout.
WorkerWaitsForever(w) ==
    /\ wpc[w] = "cv_wait"
    /\ FALSE
    /\ UNCHANGED vars

\* wait_for returns after its 10 ms at the latest, notified or not
WorkerTimeout(w) ==
    /\ wpc[w] = "cv_wait"
    /\ wpc' = [wpc EXCEPT ![w] = "loop"]
    /\ worker_condition' = worker_condition \ {w}
    /\ UNCHANGED <<running, num_threads, workers, cur, mpc, fiberVars, ctorVars, ghostVars>>

\* worker_loop with a fiber: if READY, fiber->start(), which sets RUNNING
\* and calls the work on this worker thread
FiberStart(w) ==
    /\ wpc[w] = "got"
    /\ IF state[cur[w]] = "READY"
       THEN /\ state' = [state EXCEPT ![cur[w]] = "RUNNING"]
            /\ wpc' = [wpc EXCEPT ![w] = "work"]
            /\ UNCHANGED cur
       ELSE /\ wpc' = [wpc EXCEPT ![w] = "loop"]
            /\ cur' = [cur EXCEPT ![w] = NoFiber]
            /\ UNCHANGED state
    /\ UNCHANGED <<running, num_threads, workers, worker_condition, mpc,
                   ready_queue, running_fibers, waiting_fibers, next_id, function,
                   ctorVars, ghostVars>>

\* The work of the fiber makes its channel call, on the worker's own thread.
FiberWork(w) ==
    /\ wpc[w] = "work"
    /\ function[cur[w]] \in Works
    /\ pc[w] = "idle"
    /\ IF function[cur[w]] = "send" THEN Send(w, NextValue) ELSE Receive(w)
    /\ wpc' = [wpc EXCEPT ![w] = "called"]
    /\ UNCHANGED <<running, num_threads, workers, worker_condition, cur, mpc,
                   fiberVars, ctorVars, ghostVars>>

\* Fiber::start after function() returned: state = FINISHED; the worker
\* goes round its loop
FiberFinish(w) ==
    /\ wpc[w] = "called"
    /\ pc[w] = "idle"
    /\ state' = [state EXCEPT ![cur[w]] = "FINISHED"]
    /\ wpc' = [wpc EXCEPT ![w] = "loop"]
    /\ cur' = [cur EXCEPT ![w] = NoFiber]
    /\ UNCHANGED <<running, num_threads, workers, worker_condition, mpc,
                   ready_queue, running_fibers, waiting_fibers, next_id, function,
                   ctorVars, ghostVars>>

\* ------------------------------------------------- producer and consumer
\* The work of the producer fiber: it sends the Values 1..Items, one send
\* after the other, then closes the channel and returns.
Producer(w) ==
    /\ wpc[w] = "work"
    /\ function[cur[w]] = "producer"
    /\ pc[w] = "idle"
    /\ IF Len(sent) < Items
       THEN /\ Send(w, Len(sent) + 1)
            /\ UNCHANGED wpc
       ELSE /\ Close(w)
            /\ wpc' = [wpc EXCEPT ![w] = "called"]
    /\ UNCHANGED <<running, num_threads, workers, worker_condition, cur, mpc,
                   fiberVars, ctorVars, ghostVars>>

\* The work of the consumer fiber: it calls receive until receive returns
\* no value, then returns.
Consumer(w) ==
    /\ wpc[w] = "work"
    /\ function[cur[w]] = "consumer"
    /\ Receive(w)
    /\ wpc' = [wpc EXCEPT ![w] =
                  IF pc'[w] = "idle" /\ ret'.val = nullopt THEN "called" ELSE "work"]
    /\ UNCHANGED <<running, num_threads, workers, worker_condition, cur, mpc,
                   fiberVars, ctorVars, ghostVars>>

\* ------------------------------------------ work that uses the Scheduler
\* The work of a fiber that calls no channel: it may spawn fibers, return,
\* or raise.
Task == "task"

\* function() returns to Fiber::start
WorkReturn(w) ==
    /\ wpc[w] = "work"
    /\ function[cur[w]] = Task
    /\ wpc' = [wpc EXCEPT ![w] = "called"]
    /\ UNCHANGED <<running, num_threads, workers, worker_condition, cur, mpc,
                   fiberVars, ctorVars, ghostVars>>

\* The work calls spawn on its worker thread. Fiber::next_id is a plain
\* static size_t and the constructor runs before spawn takes queue_mutex:
\* `next_id++` is a read of next_id ...
WorkSpawnRead(w) ==
    /\ wpc[w] = "work"
    /\ function[cur[w]] = Task
    /\ NewFiber + Cardinality(InCtor) <= MaxFibers
    /\ id_tmp' = [id_tmp EXCEPT ![w] = next_id]
    /\ wpc' = [wpc EXCEPT ![w] = "ctor"]
    /\ UNCHANGED <<running, num_threads, workers, worker_condition, cur, mpc,
                   fiberVars, id, fiber, ghostVars>>

\* ... and a write of the value read plus one; the rest of the constructor:
\* id(the value read), state(READY)
WorkSpawnCtor(w) ==
    /\ wpc[w] = "ctor"
    /\ next_id' = id_tmp[w] + 1
    /\ id' = [id EXCEPT ![NewFiber] = id_tmp[w]]
    /\ state' = [state EXCEPT ![NewFiber] = "READY"]
    /\ function' = [function EXCEPT ![NewFiber] = Task]
    /\ fiber' = [fiber EXCEPT ![w] = NewFiber]
    /\ id_tmp' = [id_tmp EXCEPT ![w] = 0]
    /\ wpc' = [wpc EXCEPT ![w] = "push"]
    /\ UNCHANGED <<running, num_threads, workers, worker_condition, cur, mpc,
                   ready_queue, running_fibers, waiting_fibers, ghostVars>>

\* spawn with queue_mutex held: ready_queue.push(fiber);
\* worker_condition.notify_one(); spawn returns into the work
WorkSpawnPush(w) ==
    /\ wpc[w] = "push"
    /\ ready_queue' = Push(ready_queue, fiber[w])
    /\ enqueued' = Append(enqueued, fiber[w])
    /\ fiber' = [fiber EXCEPT ![w] = NoFiber]
    /\ \E W \in NotifyOne(worker_condition) :
          /\ worker_condition' = worker_condition \ W
          /\ wpc' = [v \in Threads |->
                        IF v = w THEN "work" ELSE IF v \in W THEN "loop" ELSE wpc[v]]
    /\ UNCHANGED <<running, num_threads, workers, cur, mpc, running_fibers,
                   waiting_fibers, next_id, state, function, id, id_tmp,
                   dequeued, returned, started>>

\* The work raises. Fiber::start and worker_loop have no handler: the
\* exception leaves the thread function of worker w, std::terminate is
\* called and the process ends with all its threads.
WorkRaise(w) ==
    /\ wpc[w] = "work"
    /\ function[cur[w]] = Task
    /\ wpc' = [v \in Threads |->
                  IF v = w THEN "raised" ELSE IF v \in workers THEN "terminate" ELSE wpc[v]]
    /\ mpc' = "terminate"
    /\ UNCHANGED <<running, num_threads, workers, worker_condition, cur,
                   fiberVars, ctorVars, ghostVars>>

\* ------------------------------------------------------ Fiber operations
\* Fiber::Fiber called directly: id(next_id++), state(State::READY)
FiberCtor ==
    /\ NewFiber <= MaxFibers
    /\ next_id' = next_id + 1
    /\ id' = [id EXCEPT ![NewFiber] = next_id]
    /\ state' = [state EXCEPT ![NewFiber] = "READY"]
    /\ function' = [function EXCEPT ![NewFiber] = Task]
    /\ UNCHANGED <<poolVars, ready_queue, running_fibers, waiting_fibers,
                   id_tmp, fiber, ghostVars>>

\* The state each operation leaves a fiber in, given the state s it finds.
start(s) == IF s = "READY" THEN "RUNNING" ELSE s
yield(s) == IF s = "RUNNING" THEN "READY" ELSE s
resume(s) == IF s = "READY" THEN "RUNNING" ELSE s
wait(s) == IF s = "RUNNING" THEN "WAITING" ELSE s
finish(s) == "FINISHED"

\* Fiber::start called on f: READY becomes RUNNING and function() is entered
StartCall(f) ==
    /\ state[f] = "READY"
    /\ f \notin started
    /\ state' = [state EXCEPT ![f] = start(state[f])]
    /\ started' = started \cup {f}
    /\ UNCHANGED <<poolVars, ready_queue, running_fibers, waiting_fibers,
                   next_id, function, ctorVars, enqueued, dequeued, returned>>

\* Fiber::start, function() has returned: state = State::FINISHED
StartReturn(f) ==
    /\ f \in started
    /\ state' = [state EXCEPT ![f] = "FINISHED"]
    /\ started' = started \ {f}
    /\ UNCHANGED <<poolVars, ready_queue, running_fibers, waiting_fibers,
                   next_id, function, ctorVars, enqueued, dequeued, returned>>

\* yield, resume, wait or finish called on f, by its own work or by any
\* other holder of the Fiber
Operate(f, op) ==
    /\ state[f] # "NONE"
    /\ state' = [state EXCEPT ![f] =
                    CASE op = "yield" -> yield(state[f])
                      [] op = "resume" -> resume(state[f])
                      [] op = "wait" -> wait(state[f])
                      [] op = "finish" -> finish(state[f])]
    /\ UNCHANGED <<poolVars, ready_queue, running_fibers, waiting_fibers,
                   next_id, function, ctorVars, ghostVars>>

\* ------------------------------------------------------- GarbageCollector
Ptrs == 1..MaxPtrs
Sizes == 1..MaxSize
GcThreads == 1..MaxGcThreads
NoThread == 0
DefaultThreshold == 1024 * 1024

\* The entry objects holds for an identity that is not registered.
Absent == [size |-> 0, marked |-> FALSE, present |-> FALSE]
ObjectInfo(s) == [size |-> s, marked |-> FALSE, present |-> TRUE]
Registered(p) == objects[p].present

\* The record of a returned GarbageCollector call: every one of them
\* returns void and none throws, so error is never set.
GcRet(op, found) == [op |-> op, found |-> found, error |-> FALSE]

\* GarbageCollector::GarbageCollector: memory_threshold(1024 * 1024),
\* total_allocated(0); the roots are what the program holds on to, the
\* first k identities for some k.
GcInit ==
    /\ objects = [p \in Ptrs |-> Absent]
    /\ total_allocated = 0
    /\ memory_threshold = DefaultThreshold
    /\ gc_mutex = NoThread
    /\ gpc = [t \in GcThreads |-> "idle"]
    /\ roots \in {1..k : k \in 0..MaxPtrs}
    /\ gret = GcRet("none", FALSE)
    /\ plain = [ok |-> TRUE, n |-> 0, sum |-> 0]

allocated_objects == Cardinality({p \in Ptrs : Registered(p)})
total_memory == total_allocated

\* The history of a sequence of calls that were all register_object on a
\* new identity: how many, and the sum of their sizes; given up at a
\* register_object on a registered identity and at an unregister_object.
PlainAfterRegister(p, s) ==
    IF plain.ok /\ ~Registered(p)
    THEN [ok |-> TRUE, n |-> plain.n + 1, sum |-> plain.sum + s]
    ELSE [ok |-> FALSE, n |-> 0, sum |-> 0]
NotPlain == [ok |-> FALSE, n |-> 0, sum |-> 0]

\* Faulty variant of RegisterObject: gc_mutex is not taken.
RegisterObjectNoLock(t, p, s) ==
    /\ gpc[t] = "idle"
    /\ total_allocated + s <= MaxTotal
    /\ objects' = [objects EXCEPT ![p] = ObjectInfo(s)]
    /\ total_allocated' = total_allocated + s
    /\ plain' = PlainAfterRegister(p, s)
    /\ gret' = GcRet("register", FALSE)
    /\ UNCHANGED <<memory_threshold, roots, gc_mutex, gpc>>

\* GarbageCollector::register_object up to the test of the threshold, with
\* gc_mutex taken: objects[ptr] = {ptr, size, false}; total_allocated += size.
\* Below the threshold the call returns; above it the call goes on to
\* collect() with gc_mutex still held.
RegisterObject(t, p, s) ==
    /\ gpc[t] = "idle"
    /\ gc_mutex = NoThread
    /\ total_allocated + s <= MaxTotal
    /\ objects' = [objects EXCEPT ![p] = ObjectInfo(s)]
    /\ total_allocated' = total_allocated + s
    /\ plain' = PlainAfterRegister(p, s)
    /\ IF total_allocated + s > memory_threshold
       THEN /\ gc_mutex' = t
            /\ gpc' = [gpc EXCEPT ![t] = "register_collect"]
            /\ UNCHANGED gret
       ELSE /\ gret' = GcRet("register", FALSE)
            /\ UNCHANGED <<gc_mutex, gpc>>
    /\ UNCHANGED <<memory_threshold, roots>>

\* register_object calls collect(), whose lock_guard locks gc_mutex, a
\* std::mutex the calling thread already owns: the behaviour is undefined.
\* The thread blocks for ever on its own lock, or the lock is taken again
\* and the collection runs inside the registration.
RegisterCollect(t) ==
    /\ gpc[t] = "register_collect"
    /\ \/ gpc' = [gpc EXCEPT ![t] = "self_deadlock"]
       \/ gpc' = [gpc EXCEPT ![t] = "nested_collect"]
    /\ UNCHANGED <<objects, total_allocated, memory_threshold, gc_mutex, roots, gret, plain>>

\* GarbageCollector::unregister_object, with gc_mutex taken
UnregisterObject(t, p) ==
    /\ gpc[t] = "idle"
    /\ gc_mutex = NoThread
    /\ IF Registered(p)
       THEN /\ total_allocated' = total_allocated - objects[p].size
            /\ objects' = [objects EXCEPT ![p] = Absent]
            /\ plain' = NotPlain
       ELSE UNCHANGED <<objects, total_allocated, plain>>
    /\ gret' = GcRet("unregister", Registered(p))
    /\ UNCHANGED <<memory_threshold, gc_mutex, gpc, roots>>

\* GarbageCollector::collect takes gc_mutex
CollectLock(t) ==
    /\ gpc[t] = "idle"
    /\ gc_mutex = NoThread
    /\ gc_mutex' = t
    /\ gpc' = [gpc EXCEPT ![t] = "collect"]
    /\ UNCHANGED <<objects, total_allocated, memory_threshold, roots, gret, plain>>

\* Faulty variant of mark_reachable_objects: no object is marked.
mark_nothing(objs) == objs

\* GarbageCollector::mark_reachable_objects: every registered object is
\* marked, whatever the roots are.
mark_reachable_objects(objs) ==
    [p \in Ptrs |-> IF objs[p].present THEN [objs[p] EXCEPT !.marked = TRUE] ELSE objs[p]]

\* mark_and_sweep, its first two phases: the marks are reset, then
\* mark_reachable_objects runs
CollectMark(t) ==
    /\ gpc[t] \in {"collect", "nested_collect"}
    /\ objects' = mark_reachable_objects(
                     [p \in Ptrs |-> [objects[p] EXCEPT !.marked = FALSE]])
    /\ gpc' = [gpc EXCEPT ![t] = IF gpc[t] = "collect" THEN "marked" ELSE "nested_marked"]
    /\ UNCHANGED <<total_allocated, memory_threshold, gc_mutex, roots, gret, plain>>

\* Faulty variant of Unmarked: the marks are not looked at.
UnmarkedAll == {p \in Ptrs : Registered(p)}

\* The identities sweep_unreachable_objects erases: the unmarked ones.
Unmarked == {p \in Ptrs : Registered(p) /\ ~objects[p].marked}

\* The sum of the sizes objects holds for the identities in S.
RECURSIVE SizeSum(_)
SizeSum(S) ==
    IF S = {} THEN 0
    ELSE LET p == CHOOSE q \in S : TRUE
         IN objects[p].size + SizeSum(S \ {p})

\* GarbageCollector::sweep_unreachable_objects, then collect returns and
\* its lock_guard releases gc_mutex; a collect that register_object called
\* returns into it, and register_object returns.
CollectSweep(t) ==
    /\ gpc[t] \in {"marked", "nested_marked"}
    /\ objects' = [p \in Ptrs |-> IF p \in Unmarked THEN Absent ELSE objects[p]]
    /\ total_allocated' = total_allocated - SizeSum(Unmarked)
    /\ gc_mutex' = NoThread
    /\ gret' = GcRet(IF gpc[t] = "marked" THEN "collect" ELSE "register_collected", FALSE)
    /\ gpc' = [gpc EXCEPT ![t] = "idle"]
    /\ UNCHANGED <<memory_threshold, roots, plain>>

\* GarbageCollector::set_threshold: memory_threshold = threshold, with no
\* lock and no test of the value
SetThreshold(t, v) ==
    /\ gpc[t] = "idle"
    /\ memory_threshold' = v
    /\ gret' = GcRet("set_threshold", FALSE)
    /\ UNCHANGED <<objects, total_allocated, gc_mutex, gpc, roots, plain>>

\* ------------------------------------------------------------ the mutexes
\* The locks of the runtime: Scheduler::queue_mutex, Channel::mutex of each
\* of two channels, GarbageCollector::gc_mutex and Runtime::globals_mutex.
ChannelLocks == {"mutex_1", "mutex_2"}
Locks == {"queue_mutex", "gc_mutex", "globals_mutex"} \cup ChannelLocks

\* Thread 1 is the thread that owns the Runtime; the others are workers.
MainThread == 1
LockWorkers == Threads \ {MainThread}

\* The calls whose whole body is one lock_guard scope, with their lock.
GuardedCalls == {"spawn", "wait_all", "active_fibers", "total_fibers", "schedule_fiber",
                 "unregister_object", "allocated_objects", "total_memory",
                 "set_global", "get_global"}
LockOf(call) ==
    CASE call \in {"spawn", "wait_all", "active_fibers", "total_fibers", "schedule_fiber"} -> "queue_mutex"
      [] call \in {"unregister_object", "allocated_objects", "total_memory", "collect", "register_object"} -> "gc_mutex"
      [] call \in {"set_global", "get_global"} -> "globals_mutex"
      [] call \in {"get_next_fiber", "wait_for", "woken"} -> "queue_mutex"
      [] OTHER -> "none"

Free(l) == \A u \in Threads : l \notin holds[u]

\* A thread may call the runtime when it is the owner, or a worker inside
\* the function() of a fiber, and is in no call.
MayCall(t) == lpc[t] = "idle" /\ (t = MainThread \/ inwork[t])

LockInit ==
    /\ holds = [t \in Threads |-> {}]
    /\ lpc = [t \in Threads |-> "idle"]
    /\ inwork = [t \in Threads |-> FALSE]
    /\ chan = [t \in Threads |-> "none"]

\* Entry of a call of GuardedCalls, of collect or of register_object: the
\* lock_guard takes the lock.
CallLock(t, call) ==
    /\ MayCall(t)
    /\ Free(LockOf(call))
    /\ holds' = [holds EXCEPT ![t] = @ \cup {LockOf(call)}]
    /\ lpc' = [lpc EXCEPT ![t] = call]
    /\ UNCHANGED <<inwork, chan>>

\* Return of such a call (of wait_all: the end of one round of its loop):
\* the lock_guard releases the lock.
CallUnlock(t) ==
    /\ lpc[t] \in GuardedCalls \cup {"collect", "register_object"}
    /\ holds' = [holds EXCEPT ![t] = @ \ {LockOf(lpc[t])}]
    /\ lpc' = [lpc EXCEPT ![t] = "idle"]
    /\ UNCHANGED <<inwork, chan>>

\* register_object above the threshold calls collect() inside its
\* lock_guard scope; collect locks gc_mutex, which the thread owns: the
\* thread blocks on itself, or the lock goes through and both scopes end
\* at the return.
LockAgain(t) ==
    /\ lpc[t] = "register_object"
    /\ \/ lpc' = [lpc EXCEPT ![t] = "self_deadlock"]
       \/ lpc' = [lpc EXCEPT ![t] = "collect"]
    /\ UNCHANGED <<holds, inwork, chan>>

\* Entry of Channel::send, receive, close, is_closed, size or capacity on
\* one channel: the lock takes that channel's mutex.
ChannelLock(t, c, call) ==
    /\ MayCall(t)
    /\ Free(c)
    /\ holds' = [holds EXCEPT ![t] = @ \cup {c}]
    /\ lpc' = [lpc EXCEPT ![t] = call]
    /\ chan' = [chan EXCEPT ![t] = c]
    /\ UNCHANGED inwork

\* send and receive wait on a condition variable: the wait releases the
\* channel's mutex
ChannelWait(t) ==
    /\ lpc[t] \in {"send", "receive"}
    /\ holds' = [holds EXCEPT ![t] = @ \ {chan[t]}]
    /\ lpc' = [lpc EXCEPT ![t] = IF lpc[t] = "send" THEN "send_wait" ELSE "receive_wait"]
    /\ UNCHANGED <<inwork, chan>>

\* and takes it again before it returns.
ChannelWake(t) ==
    /\ lpc[t] \in {"send_wait", "receive_wait"}
    /\ Free(chan[t])
    /\ holds' = [holds EXCEPT ![t] = @ \cup {chan[t]}]
    /\ lpc' = [lpc EXCEPT ![t] = IF lpc[t] = "send_wait" THEN "send" ELSE "receive"]
    /\ UNCHANGED <<inwork, chan>>

\* Return of a Channel call
ChannelUnlock(t) ==
    /\ lpc[t] \in {"send", "receive", "close", "size"}
    /\ holds' = [holds EXCEPT ![t] = @ \ {chan[t]}]
    /\ lpc' = [lpc EXCEPT ![t] = "idle"]
    /\ chan' = [chan EXCEPT ![t] = "none"]
    /\ UNCHANGED inwork

\* worker_loop calls get_next_fiber, or wait_for after a nullptr: either
\* locks queue_mutex
LoopLock(w, call) ==
    /\ lpc[w] = "idle"
    /\ ~inwork[w]
    /\ Free("queue_mutex")
    /\ holds' = [holds EXCEPT ![w] = @ \cup {"queue_mutex"}]
    /\ lpc' = [lpc EXCEPT ![w] = call]
    /\ UNCHANGED <<inwork, chan>>

\* Faulty variant of GetNextFiberReturn: queue_mutex is kept over start().
GetNextFiberKeepsLock(w) ==
    /\ lpc[w] = "get_next_fiber"
    /\ \/ /\ holds' = [holds EXCEPT ![w] = @ \ {"queue_mutex"}]
          /\ UNCHANGED inwork
       \/ /\ inwork' = [inwork EXCEPT ![w] = TRUE]
          /\ UNCHANGED holds
    /\ lpc' = [lpc EXCEPT ![w] = "idle"]
    /\ UNCHANGED chan

\* get_next_fiber returns, its lock_guard releases queue_mutex; with a
\* fiber, worker_loop calls fiber->start(), which calls function().
GetNextFiberReturn(w) ==
    /\ lpc[w] = "get_next_fiber"
    /\ holds' = [holds EXCEPT ![w] = @ \ {"queue_mutex"}]
    /\ \/ UNCHANGED inwork
       \/ inwork' = [inwork EXCEPT ![w] = TRUE]
    /\ lpc' = [lpc EXCEPT ![w] = "idle"]
    /\ UNCHANGED chan

\* function() returns to Fiber::start and start to worker_loop.
FunctionReturn(w) ==
    /\ lpc[w] = "idle"
    /\ inwork[w]
    /\ inwork' = [inwork EXCEPT ![w] = FALSE]
    /\ UNCHANGED <<holds, lpc, chan>>

\* worker_condition.wait_for releases queue_mutex while it waits
LoopWait(w) ==
    /\ lpc[w] = "wait_for"
    /\ holds' = [holds EXCEPT ![w] = @ \ {"queue_mutex"}]
    /\ lpc' = [lpc EXCEPT ![w] = "waiting"]
    /\ UNCHANGED <<inwork, chan>>

\* takes it again at the notify or the timeout
LoopWake(w) ==
    /\ lpc[w] = "waiting"
    /\ Free("queue_mutex")
    /\ holds' = [holds EXCEPT ![w] = @ \cup {"queue_mutex"}]
    /\ lpc' = [lpc EXCEPT ![w] = "woken"]
    /\ UNCHANGED <<inwork, chan>>

\* and the unique_lock releases it at the end of the else branch.
LoopUnlock(w) ==
    /\ lpc[w] = "woken"
    /\ holds' = [holds EXCEPT ![w] = @ \ {"queue_mutex"}]
    /\ lpc' = [lpc EXCEPT ![w] = "idle"]
    /\ UNCHANGED <<inwork, chan>>

\* ------------------------------------------------- examples/concurrent_sum
NUM_NUMBERS == 1000000
NUM_FIBERS == 8
CHUNK_SIZE == NUM_NUMBERS \div NUM_FIBERS

\* int is 32 bits wide: a value is kept as its 16 upper bits (signed) and
\* its 16 lower bits, and the sum of two ints wraps modulo 2^32.
Half == 65536
Add32(x, y) ==
    LET lo == (x % Half) + (y % Half)
        hi == (x \div Half) + (y \div Half) + (lo \div Half)
    IN ((((hi + Half \div 2) % Half) - Half \div 2) * Half) + (lo % Half)

\* An integer of any size, as <<upper part, 16 lower bits>>.
Wide(x) == <<x \div Half, x % Half>>
WideAdd(a, b) ==
    <<a[1] + b[1] + ((a[2] + b[2]) \div Half), (a[2] + b[2]) % Half>>

\* numbers[i] after std::iota(numbers.begin(), numbers.end(), 1)
numbers(i) == i + 1

\* The int that `sum += numbers[i]` leaves for the indices from..to - 1 when
\* each addition wraps; addition modulo 2^32 is associative, so the range
\* is summed by halves.
RECURSIVE SumRange32(_, _)
SumRange32(from, to) ==
    IF to <= from THEN 0
    ELSE IF to = from + 1 THEN numbers(from)
    ELSE LET mid == (from + to) \div 2
         IN Add32(SumRange32(from, mid), SumRange32(mid, to))

\* The same sum in the integers.
RECURSIVE SumRangeWide(_, _)
SumRangeWide(from, to) ==
    IF to <= from THEN Wide(0)
    ELSE IF to = from + 1 THEN Wide(numbers(from))
    ELSE LET mid == (from + to) \div 2
         IN WideAdd(SumRangeWide(from, mid), SumRangeWide(mid, to))

\* main: the slice [start, end) of fiber i, for i in 0..NUM_FIBERS - 1
SliceStart(i) == i * CHUNK_SIZE
SliceEnd(i) == IF i = NUM_FIBERS - 1 THEN NUM_NUMBERS ELSE (i + 1) * CHUNK_SIZE

\* sum_range_fiber: the int sum of each fiber's slice, and the same in the
\* integers
PartialSum32(i) == SumRange32(SliceStart(i), SliceEnd(i))
PartialSumWide(i) == SumRangeWide(SliceStart(i), SliceEnd(i))

\* `sum += numbers[i]` overflows int in the slice of fiber i.
Overflows(i) == Wide(slice_sum[i][1]) # slice_sum[i][2]

SumInit ==
    /\ traps \in BOOLEAN
    /\ sum_pc = [i \in 0..(NUM_FIBERS - 1) |-> "ready"]
    /\ partial_results = <<>>
    /\ total_sum = 0
    /\ received_count = 0
    /\ agg_pc = "loop"
    /\ final_result = <<>>
    /\ concurrent_sum = 0
    /\ main_pc = "receive"

\* sum_range_fiber of fiber i: the loop over its slice, Value result(sum),
\* result_channel->send(result). The overflow of int in the loop is
\* undefined: the build wraps the sum, or traps and the process ends. The
\* channel has room for NUM_FIBERS values, so the send does not wait.
sum_range_fiber(i) ==
    /\ sum_pc[i] = "ready"
    /\ main_pc # "aborted"
    /\ IF traps /\ Overflows(i)
       THEN /\ sum_pc' = [sum_pc EXCEPT ![i] = "trapped"]
            /\ main_pc' = "aborted"
            /\ UNCHANGED partial_results
       ELSE /\ sum_pc' = [sum_pc EXCEPT ![i] = "sent"]
            /\ partial_results' = Append(partial_results, slice_sum[i][1])
            /\ UNCHANGED main_pc
    /\ UNCHANGED <<traps, total_sum, received_count, agg_pc, final_result, concurrent_sum, slice_sum>>

\* aggregator_fiber, one round of its loop: receive() returns the oldest
\* value once there is one; total_sum += result->get<int64_t>() adds in
\* int64_t and converts to int; received_count++
AggregatorReceive ==
    /\ agg_pc = "loop"
    /\ main_pc # "aborted"
    /\ received_count < NUM_FIBERS
    /\ partial_results # <<>>
    /\ total_sum' = Add32(total_sum, Head(partial_results))
    /\ partial_results' = Tail(partial_results)
    /\ received_count' = received_count + 1
    /\ UNCHANGED <<traps, sum_pc, agg_pc, final_result, concurrent_sum, main_pc, slice_sum>>

\* aggregator_fiber after its loop: Value final_result(total_sum);
\* output_channel->send(final_result)
AggregatorSend ==
    /\ agg_pc = "loop"
    /\ main_pc # "aborted"
    /\ received_count = NUM_FIBERS
    /\ final_result' = Append(final_result, total_sum)
    /\ agg_pc' = "done"
    /\ UNCHANGED <<traps, sum_pc, partial_results, total_sum, received_count, concurrent_sum, main_pc, slice_sum>>

\* main: final_result->receive(); int concurrent_sum = get<int64_t>()
MainReceive ==
    /\ main_pc = "receive"
    /\ final_result # <<>>
    /\ concurrent_sum' = Head(final_result)
    /\ final_result' = Tail(final_result)
    /\ main_pc' = "done"
    /\ UNCHANGED <<traps, sum_pc, partial_results, total_sum, received_count, agg_pc, slice_sum>>

\* ------------------------------------------------------- Runtime::globals
Names == {"test_var", "other_var"}
GlobalValues == {123, 456}

\* The call a thread is making on the globals, or none.
NoCall == [op |-> "none", name |-> "", val |-> nullopt]

GlobalsInit ==
    /\ globals = [n \in Names |-> nullopt]
    /\ globals_mutex = NoThread
    /\ gl_pc = [t \in Threads |-> NoCall]
    /\ gl_ret = NoCall
    /\ set_log = <<>>

\* Runtime::set_global / get_global, the entry: the lock_guard takes
\* globals_mutex
GlobalLock(t, op, name, v) ==
    /\ gl_pc[t] = NoCall
    /\ globals_mutex = NoThread
    /\ globals_mutex' = t
    /\ gl_pc' = [gl_pc EXCEPT ![t] = [op |-> op, name |-> name, val |-> v]]
    /\ UNCHANGED <<globals, gl_ret, set_log>>

\* Faulty variant of SetGlobal: the other names are erased.
SetGlobalErasesOthers(t) ==
    /\ gl_pc[t].op = "set_global"
    /\ Len(set_log) < MaxSets
    /\ globals' = [n \in Names |-> IF n = gl_pc[t].name THEN gl_pc[t].val ELSE nullopt]
    /\ set_log' = Append(set_log, <<gl_pc[t].name, gl_pc[t].val>>)
    /\ gl_ret' = gl_pc[t]
    /\ gl_pc' = [gl_pc EXCEPT ![t] = NoCall]
    /\ globals_mutex' = NoThread

\* Runtime::set_global: globals[name] = value; the call returns and the
\* lock_guard releases globals_mutex
SetGlobal(t) ==
    /\ gl_pc[t].op = "set_global"
    /\ Len(set_log) < MaxSets
    /\ globals' = [globals EXCEPT ![gl_pc[t].name] = gl_pc[t].val]
    /\ set_log' = Append(set_log, <<gl_pc[t].name, gl_pc[t].val>>)
    /\ gl_ret' = gl_pc[t]
    /\ gl_pc' = [gl_pc EXCEPT ![t] = NoCall]
    /\ globals_mutex' = NoThread

\* Runtime::get_global: globals.find(name); the value found, or nullopt
GetGlobal(t) ==
    /\ gl_pc[t].op = "get_global"
    /\ gl_ret' = [gl_pc[t] EXCEPT !.val = globals[gl_pc[t].name]]
    /\ gl_pc' = [gl_pc EXCEPT ![t] = NoCall]
    /\ globals_mutex' = NoThread
    /\ UNCHANGED <<globals, set_log>>

\* --------------------------------------------------- Runtime::get_instance
\* Runtime::instance is nullptr, or one of the Runtime objects, which are
\* numbered in the order of their construction.
nullptr == 0

InstanceInit ==
    /\ instance = nullptr
    /\ runtimes = 0
    /\ in_pc = [t \in Threads |-> "idle"]
    /\ in_new = [t \in Threads |-> nullptr]
    /\ got = [t \in Threads |-> nullptr]

\* get_instance: `if (!instance)`; with an instance the call goes on to its
\* return.
GetInstanceTest(t) ==
    /\ in_pc[t] = "idle"
    /\ in_pc' = [in_pc EXCEPT ![t] = IF instance = nullptr THEN "new" ELSE "return"]
    /\ UNCHANGED <<instance, runtimes, in_new, got>>

\* `new Runtime()`: the constructor makes the Scheduler and the
\* GarbageCollector and ends with instance = this.
GetInstanceNew(t) ==
    /\ in_pc[t] = "new"
    /\ runtimes' = runtimes + 1
    /\ in_new' = [in_new EXCEPT ![t] = runtimes + 1]
    /\ instance' = runtimes + 1
    /\ in_pc' = [in_pc EXCEPT ![t] = "assign"]
    /\ UNCHANGED got

\* `instance = new Runtime();` the assignment
GetInstanceAssign(t) ==
    /\ in_pc[t] = "assign"
    /\ instance' = in_new[t]
    /\ in_pc' = [in_pc EXCEPT ![t] = "return"]
    /\ UNCHANGED <<runtimes, in_new, got>>

\* `return *instance;`
GetInstanceReturn(t) ==
    /\ in_pc[t] = "return"
    /\ got' = [got EXCEPT ![t] = instance]
    /\ in_pc' = [in_pc EXCEPT ![t] = "idle"]
    /\ UNCHANGED <<instance, runtimes, in_new>>

\* ----------------------------------------------------------- Fiber::locals
Keys == {"k1", "k2"}
LocalValues == {1, 2}
NoLocals == [k \in Keys |-> nullopt]

LocalsInit ==
    /\ locals = [f \in FiberIds |-> NoLocals]
    /\ last_set = [f \in FiberIds |-> NoLocals]
    /\ loc_ret = [fiber |-> NoFiber, key |-> "", val |-> nullopt]

\* Faulty variant of SetLocal: the fiber's other keys are erased.
SetLocalErasesOthers(f, k, v) ==
    /\ state[f] # "NONE"
    /\ locals' = [locals EXCEPT ![f] = [j \in Keys |-> IF j = k THEN Some(v) ELSE nullopt]]
    /\ last_set' = [last_set EXCEPT ![f][k] = Some(v)]
    /\ UNCHANGED loc_ret

\* Fiber::set_local on the fiber f: locals[key] = value
SetLocal(f, k, v) ==
    /\ state[f] # "NONE"
    /\ locals' = [locals EXCEPT ![f][k] = Some(v)]
    /\ last_set' = [last_set EXCEPT ![f][k] = Some(v)]
    /\ UNCHANGED loc_ret

\* Fiber::get_local on the fiber f: locals.find(key); the value found, or
\* nullopt
GetLocal(f, k) ==
    /\ state[f] # "NONE"
    /\ loc_ret' = [fiber |-> f, key |-> k, val |-> locals[f][k]]
    /\ UNCHANGED <<locals, last_set>>

\* ------------------------------------------------------------------ Lexer
\* The characters of the inputs: a letter, a space, a line break and the
\* comment sign; NUL is what peek() returns at the end of the input.
NL == "\n"
NUL == "\\0"
Chars == {"a", " ", NL, "#"}
Inputs == UNION {[1..n -> Chars] : n \in 0..MaxLen}

\* Lexer::Lexer(source): index{0}, line{1}, indentStack{0},
\* atLineStart{true}; index is kept one-based here.
LexerInit ==
    /\ index = 1
    /\ line = 1
    /\ indentStack = <<0>>
    /\ atLineStart = TRUE
    /\ tokens = <<>>
    /\ lex_pc = "top"

\* Lexer::peek and Lexer::eof at position i
peek(i) == IF i > Len(input) THEN NUL ELSE input[i]
eof(i) == i > Len(input)

\* Token{type, value, line, column}, its type and line
Token(type, l) == [type |-> type, line |-> l]

\* The position that `while (!eof() && peek() == c) advance();` stops at
RECURSIVE SkipRun(_, _)
SkipRun(i, c) == IF ~eof(i) /\ peek(i) = c THEN SkipRun(i + 1, c) ELSE i

\* The position that `while (!eof() && advance() != '\n') {}` stops at:
\* behind the first line break from i on, or the end of the input
RECURSIVE SkipLine(_)
SkipLine(i) ==
    IF eof(i) THEN i
    ELSE IF peek(i) = NL THEN i + 1
    ELSE SkipLine(i + 1)
\* whether that loop has consumed a line break
AteBreak(i) == SkipLine(i) > 1 /\ SkipLine(i) > i /\ input[SkipLine(i) - 1] = NL

\* The loop of emitPendingIndents: pop while the back is larger than indent
RECURSIVE PopLarger(_, _)
PopLarger(stack, indent) ==
    IF stack # <<>> /\ stack[Len(stack)] > indent
    THEN PopLarger(SubSeq(stack, 1, Len(stack) - 1), indent)
    ELSE stack

\* n tokens of one type on line l
Repeat(type, l, n) == [k \in 1..n |-> Token(type, l)]

\* Lexer::emitPendingIndents(indent) on the stack `stack`, with the tokens
\* on line l: the stack it leaves, the tokens it pushes, and whether it
\* throws the IndentationError
emitPendingIndents(stack, indent, l) ==
    LET current == stack[Len(stack)]
        popped == PopLarger(stack, indent)
    IN  IF indent > current
        THEN [stack |-> Append(stack, indent), toks |-> <<Token("INDENT", l)>>,
              error |-> FALSE]
        ELSE IF indent < current
        THEN [stack |-> popped,
              toks |-> Repeat("DEDENT", l, Len(stack) - Len(popped)),
              error |-> popped = <<>> \/ popped[Len(popped)] # indent]
        ELSE [stack |-> stack, toks |-> <<>>, error |-> FALSE]

\* tokenize is at the top of its loop with input left
AtTop == lex_pc = "top" /\ ~eof(index)
\* tokenize is behind the `if (atLineStart)` block of a round of its loop
InBody == lex_pc = "body" \/ (AtTop /\ ~atLineStart)

\* tokenize, start of a line that is empty or a comment (263-279): the
\* spaces, the comment up to and with its line break, one more line break
\* if one follows, one NEWLINE
LineStartBlank ==
    LET i == SkipRun(index, " ")
        j == IF peek(i) = "#" THEN SkipLine(i) ELSE i
        ate == peek(i) = "#" /\ AteBreak(i)
        l == IF ate THEN line + 1 ELSE line
    IN  /\ AtTop
        /\ atLineStart
        /\ peek(i) \in {NL, "#"}
        /\ index' = IF peek(j) = NL THEN j + 1 ELSE j
        /\ line' = IF peek(j) = NL THEN l + 1 ELSE l
        /\ atLineStart' = (ate \/ peek(j) = NL)
        /\ tokens' = Append(tokens, Token("NEWLINE", line' - 1))
        /\ UNCHANGED <<input, indentStack, lex_pc>>

\* tokenize, start of any other line (263-282): the spaces, then
\* emitPendingIndents(indent); the round goes on behind the block
LineStartIndent ==
    LET i == SkipRun(index, " ")
        r == emitPendingIndents(indentStack, i - index, line)
    IN  /\ AtTop
        /\ atLineStart
        /\ peek(i) \notin {NL, "#"}
        /\ index' = i
        /\ atLineStart' = FALSE
        /\ indentStack' = r.stack
        /\ tokens' = tokens \o r.toks
        /\ lex_pc' = IF r.error THEN "IndentationError" ELSE "body"
        /\ UNCHANGED <<input, line>>

\* Lexer::skipComment returning true, and the `continue` (284-288): the
\* comment is consumed up to and with its line break; advance() sets
\* atLineStart at the break
skipComment ==
    /\ InBody
    /\ peek(index) = "#"
    /\ index' = SkipLine(index)
    /\ line' = IF AteBreak(index) THEN line + 1 ELSE line
    /\ atLineStart' = AteBreak(index)
    /\ lex_pc' = "top"
    /\ UNCHANGED <<input, indentStack, tokens>>

\* Lexer::handleNewline and the `continue` (290-294, 81-101): the line
\* break, a NEWLINE on the line it ends, the spaces of the next line, and
\* emitPendingIndents unless a line break or a comment follows
handleNewline ==
    LET i == SkipRun(index + 1, " ")
        r == emitPendingIndents(indentStack, i - (index + 1), line + 1)
        blank == peek(i) \in {NL, "#"}
    IN  /\ InBody
        /\ peek(index) = NL
        /\ index' = i
        /\ line' = line + 1
        /\ atLineStart' = FALSE
        /\ indentStack' = IF blank THEN indentStack ELSE r.stack
        /\ tokens' = Append(tokens, Token("NEWLINE", line))
                        \o (IF blank THEN <<>> ELSE r.toks)
        /\ lex_pc' = IF ~blank /\ r.error THEN "IndentationError" ELSE "top"
        /\ UNCHANGED input

\* Lexer::skipSpaces and the `continue` (296-300)
skipSpaces ==
    /\ InBody
    /\ peek(index) = " "
    /\ index' = SkipRun(index, " ")
    /\ lex_pc' = "top"
    /\ UNCHANGED <<input, line, indentStack, atLineStart, tokens>>

\* Lexer::readIdentifierOrKeyword and the push of its token (307)
readIdentifierOrKeyword ==
    /\ InBody
    /\ peek(index) = "a"
    /\ index' = SkipRun(index, "a")
    /\ tokens' = Append(tokens, Token("IDENTIFIER", line))
    /\ lex_pc' = "top"
    /\ UNCHANGED <<input, line, indentStack, atLineStart>>

\* No reader takes the character (311-313): at the end of the input, which
\* the round reaches when the spaces of a line start were the last
\* characters, peek() is '\0' and tokenize throws the LexError
Unrecognized ==
    /\ InBody
    /\ peek(index) = NUL
    /\ lex_pc' = "LexError"
    /\ UNCHANGED <<input, index, line, indentStack, atLineStart, tokens>>

\* Faulty variant of TokenizeReturn: no DEDENT for the levels left open.
TokenizeReturnNoDedents ==
    /\ lex_pc = "top"
    /\ eof(index)
    /\ indentStack' = <<0>>
    /\ tokens' = Append(tokens, Token("END_OF_FILE", line))
    /\ lex_pc' = "returned"
    /\ UNCHANGED <<input, index, line, atLineStart>>

\* tokenize behind its loop (316-323): a DEDENT for every level but the
\* first, END_OF_FILE, return tokens
TokenizeReturn ==
    /\ lex_pc = "top"
    /\ eof(index)
    /\ indentStack' = <<indentStack[1]>>
    /\ tokens' = (tokens \o Repeat("DEDENT", line, Len(indentStack) - 1))
                    \o <<Token("END_OF_FILE", line)>>
    /\ lex_pc' = "returned"
    /\ UNCHANGED <<input, index, line, atLineStart>>

\* ------------------------------------------------- threads on one channel
\* No thread is inside a channel call.
CallersInit ==
    /\ pc = [t \in Threads |-> "idle"]
    /\ arg = [t \in Threads |-> NoValue]
    /\ ret = NoRet
    /\ sent = <<>>
    /\ rcvd = <<>>
    /\ mark = [t \in Threads |-> 0]

\* The globals of the Runtime as constructed and never called
NewInit ==
    /\ GlobalsInit
    /\ InstanceInit
    /\ LocalsInit
    /\ LexerInit
    /\ input = <<>>

\* The GarbageCollector as constructed and never called
EnvInit ==
    /\ NewInit
    /\ GcInit
    /\ roots = {}
    /\ LockInit
    /\ SumInit
    /\ traps = FALSE
    /\ slice_sum = <<>>

\* A Channel used by plain threads, as in run_tests' Teste 2; the Scheduler
\* is constructed and never started.
Init ==
    /\ ChannelInit
    /\ CallersInit
    /\ SchedulerInit
    /\ EnvInit
    /\ num_threads = 1

\* A thread calls send: on an open channel with the next Value, while the
\* bound on pushed Values leaves room; on a closed channel at any time.
CallSend ==
    /\ \E t \in Threads : (closed \/ NextValue <= MaxSends) /\ Send(t, NextValue)
    /\ UNCHANGED <<schedVars, envVars>>
CallReceive ==
    /\ \E t \in Threads : pc[t] = "idle" /\ Receive(t)
    /\ UNCHANGED <<schedVars, envVars>>
CallClose ==
    /\ \E t \in Threads : Close(t)
    /\ UNCHANGED <<schedVars, envVars>>
ResumeSend ==
    /\ \E t \in Threads : SendResume(t)
    /\ UNCHANGED <<schedVars, envVars>>
ResumeReceive ==
    /\ \E t \in Threads : pc[t] = "recv_woken" /\ Receive(t)
    /\ UNCHANGED <<schedVars, envVars>>
Spurious ==
    /\ \E t \in Threads : SpuriousWakeup(t)
    /\ UNCHANGED <<schedVars, envVars>>

Next ==
    \/ CallSend
    \/ CallReceive
    \/ CallClose
    \/ ResumeSend
    \/ ResumeReceive
    \/ Spurious

Spec == Init /\ [][Next]_vars

\* A thread that was unblocked eventually takes the mutex again (the mutex is
\* released at the end of every critical section); nothing forces a new call
\* or a spurious wake-up.
LiveSpec ==
    /\ Spec
    /\ \A t \in Threads :
          WF_vars((SendResume(t) \/ (pc[t] = "recv_woken" /\ Receive(t)))
                  /\ UNCHANGED <<schedVars, envVars>>)

\* ------------------------------------------- fibers on the worker pool
\* The worker threads run the fibers' work, which calls into the channel.
DoStart == Start /\ UNCHANGED <<envVars, chanVars, callVars, histVars, returned>>
DoStopBegin == StopBegin /\ UNCHANGED <<envVars, chanVars, callVars, histVars, returned>>
DoStopJoin == StopJoin /\ UNCHANGED <<envVars, chanVars, callVars, histVars, returned>>
DoSpawn == \E work \in Works : Spawn(work) /\ UNCHANGED <<envVars, chanVars, callVars, histVars>>
DoWorkerNext == \E w \in workers : WorkerNext(w) /\ UNCHANGED <<envVars, chanVars, callVars, histVars>>
DoWorkerIdle == \E w \in workers : WorkerIdle(w) /\ UNCHANGED <<envVars, chanVars, callVars, histVars>>
DoWorkerTimeout == \E w \in workers : WorkerTimeout(w) /\ UNCHANGED <<envVars, chanVars, callVars, histVars>>
DoFiberStart == \E w \in workers : FiberStart(w) /\ UNCHANGED <<envVars, chanVars, callVars, histVars>>
DoFiberWork == \E w \in workers : FiberWork(w) /\ UNCHANGED envVars
DoFiberFinish == \E w \in workers : FiberFinish(w) /\ UNCHANGED <<envVars, chanVars, callVars, histVars>>

\* A step of worker thread w, the channel call of its fiber included.
WorkerStep(w) ==
    \/ (WorkerNext(w) \/ WorkerIdle(w) \/ WorkerTimeout(w) \/ FiberStart(w) \/ FiberFinish(w))
          /\ UNCHANGED <<envVars, chanVars, callVars, histVars>>
    \/ FiberWork(w) /\ UNCHANGED envVars
    \/ (SendResume(w) \/ (pc[w] = "recv_woken" /\ Receive(w))) /\ UNCHANGED <<schedVars, envVars>>

DoResumeSend == (\E w \in workers : SendResume(w)) /\ UNCHANGED <<schedVars, envVars>>
DoResumeReceive ==
    (\E w \in workers : pc[w] = "recv_woken" /\ Receive(w)) /\ UNCHANGED <<schedVars, envVars>>
DoSpurious == (\E w \in workers : SpuriousWakeup(w)) /\ UNCHANGED <<schedVars, envVars>>

\* A Runtime: a Scheduler and a Channel made by make_channel.
SchedInit ==
    /\ ChannelInit
    /\ CallersInit
    /\ SchedulerInit
    /\ EnvInit

SchedNext ==
    \/ DoStart
    \/ DoStopBegin
    \/ DoStopJoin
    \/ DoSpawn
    \/ DoWorkerNext
    \/ DoWorkerIdle
    \/ DoWorkerTimeout
    \/ DoFiberStart
    \/ DoFiberWork
    \/ DoFiberFinish
    \/ DoResumeSend
    \/ DoResumeReceive
    \/ DoSpurious

SchedSpec == SchedInit /\ [][SchedNext]_vars

\* Every worker thread is an OS thread that keeps running: a step it can
\* take is eventually taken. Nothing forces spawn, start, stop or a spurious
\* wake-up.
LiveSched == SchedSpec /\ \A w \in Threads : WF_vars(WorkerStep(w))

\* ------------------------------------------- tasks on the worker pool
\* A Runtime whose fibers call no channel, as in run_tests' Teste 4: the
\* thread that owns the Runtime starts and stops the pool, spawns tasks and
\* calls wait_all; the workers run the tasks, which may spawn further tasks.
PoolInit ==
    /\ ChannelInit
    /\ CallersInit
    /\ SchedulerInit
    /\ EnvInit
    /\ max_size = 0

PoolSpawn == Spawn(Task) /\ UNCHANGED <<envVars, chanVars, callVars, histVars>>
DoWaitAllCall == WaitAllCall /\ UNCHANGED <<envVars, chanVars, callVars, histVars>>
DoWaitAllBreak == WaitAllBreak /\ UNCHANGED <<envVars, chanVars, callVars, histVars, returned>>
DoWorkReturn == \E w \in workers : WorkReturn(w) /\ UNCHANGED <<envVars, chanVars, callVars, histVars>>
DoWorkSpawnRead == \E w \in workers : WorkSpawnRead(w) /\ UNCHANGED <<envVars, chanVars, callVars, histVars>>
DoWorkSpawnCtor == \E w \in workers : WorkSpawnCtor(w) /\ UNCHANGED <<envVars, chanVars, callVars, histVars>>
DoWorkSpawnPush == \E w \in workers : WorkSpawnPush(w) /\ UNCHANGED <<envVars, chanVars, callVars, histVars>>
DoWorkRaise == \E w \in workers : WorkRaise(w) /\ UNCHANGED <<envVars, chanVars, callVars, histVars>>

\* A step of worker thread w while it runs tasks that return.
PoolWorkerStep(w) ==
    /\ \/ WorkerNext(w) \/ WorkerIdle(w) \/ WorkerTimeout(w)
       \/ FiberStart(w) \/ FiberFinish(w)
       \/ WorkReturn(w) \/ WorkSpawnRead(w) \/ WorkSpawnCtor(w) \/ WorkSpawnPush(w)
    /\ UNCHANGED <<envVars, chanVars, callVars, histVars>>

PoolNext ==
    \/ DoStart
    \/ DoStopBegin
    \/ DoStopJoin
    \/ PoolSpawn
    \/ DoWaitAllCall
    \/ DoWaitAllBreak
    \/ DoWorkerNext
    \/ DoWorkerIdle
    \/ DoWorkerTimeout
    \/ DoFiberStart
    \/ DoFiberFinish
    \/ DoWorkReturn
    \/ DoWorkSpawnRead
    \/ DoWorkSpawnCtor
    \/ DoWorkSpawnPush

PoolSpec == PoolInit /\ [][PoolNext]_vars

\* Every worker thread is an OS thread that keeps running, and so is the
\* thread inside wait_all: a step one of them can take is eventually taken
\* (queue_mutex is released at the end of every critical section and at the
\* end of every round of wait_all). Nothing forces start, stop or spawn.
LivePool ==
    /\ PoolSpec
    /\ \A w \in Threads : WF_vars(PoolWorkerStep(w))
    /\ WF_vars(DoWaitAllBreak)

\* The same pool with the calls of the owning thread logged as they return.
LogStart ==
    /\ Start
    /\ returned' = IF running THEN "start_noop" ELSE "start"
    /\ UNCHANGED <<envVars, chanVars, callVars, histVars>>
LogStopBegin ==
    /\ StopBegin
    /\ returned' = IF running THEN returned ELSE "stop_noop"
    /\ UNCHANGED <<envVars, chanVars, callVars, histVars>>
LogStopJoin ==
    /\ StopJoin
    /\ returned' = "stop"
    /\ UNCHANGED <<envVars, chanVars, callVars, histVars>>
LogWaitAllBreak ==
    /\ WaitAllBreak
    /\ returned' = "wait_all"
    /\ UNCHANGED <<envVars, chanVars, callVars, histVars>>

LogNext ==
    \/ LogStart
    \/ LogStopBegin
    \/ LogStopJoin
    \/ PoolSpawn
    \/ DoWaitAllCall
    \/ LogWaitAllBreak
    \/ DoWorkerNext
    \/ DoWorkerIdle
    \/ DoWorkerTimeout
    \/ DoFiberStart
    \/ DoFiberFinish
    \/ DoWorkReturn
    \/ DoWorkSpawnRead
    \/ DoWorkSpawnCtor
    \/ DoWorkSpawnPush

LogSpec == PoolInit /\ [][LogNext]_vars

\* The same pool with tasks that may raise.
RaiseNext ==
    \/ PoolNext
    \/ DoWorkRaise

RaiseSpec == PoolInit /\ [][RaiseNext]_vars

\* ------------------------------------------- Fiber objects used directly
\* Fibers constructed by the caller, which calls their operations itself;
\* the Scheduler is constructed and never started.
FiberNew == FiberCtor /\ UNCHANGED <<envVars, chanVars, callVars, histVars>>
FiberCallStart == \E f \in FiberIds : StartCall(f) /\ UNCHANGED <<envVars, chanVars, callVars, histVars>>
FiberReturnStart == \E f \in FiberIds : StartReturn(f) /\ UNCHANGED <<envVars, chanVars, callVars, histVars>>
FiberYield == \E f \in FiberIds : Operate(f, "yield") /\ UNCHANGED <<envVars, chanVars, callVars, histVars>>
FiberResume == \E f \in FiberIds : Operate(f, "resume") /\ UNCHANGED <<envVars, chanVars, callVars, histVars>>
FiberWait == \E f \in FiberIds : Operate(f, "wait") /\ UNCHANGED <<envVars, chanVars, callVars, histVars>>
FiberFinishCall == \E f \in FiberIds : Operate(f, "finish") /\ UNCHANGED <<envVars, chanVars, callVars, histVars>>

FiberInit ==
    /\ PoolInit
    /\ num_threads = 1

FiberNext ==
    \/ FiberNew
    \/ FiberCallStart
    \/ FiberReturnStart
    \/ FiberYield
    \/ FiberResume
    \/ FiberWait
    \/ FiberFinishCall

FiberSpec == FiberInit /\ [][FiberNext]_vars

\* ================================================================ claims
\* ------------------------------------------- threads on the GarbageCollector
\* GC threads call register_object, unregister_object, collect and
\* set_threshold on one GarbageCollector, in any order and with any
\* identities and sizes; the channel and the scheduler are not used.
GcOnlyInit ==
    /\ ChannelInit
    /\ max_size = 0
    /\ CallersInit
    /\ SchedulerInit
    /\ num_threads = 1
    /\ NewInit
    /\ GcInit
    /\ LockInit
    /\ SumInit
    /\ traps = FALSE
    /\ slice_sum = <<>>

GcIdle == UNCHANGED <<chanVars, callVars, histVars, schedVars, lockVars, sumVars, newVars>>

DoRegisterObject == \E t \in GcThreads, p \in Ptrs, s \in Sizes : RegisterObject(t, p, s) /\ GcIdle
DoRegisterCollect == \E t \in GcThreads : RegisterCollect(t) /\ GcIdle
DoUnregisterObject == \E t \in GcThreads, p \in Ptrs : UnregisterObject(t, p) /\ GcIdle
DoCollectLock == \E t \in GcThreads : CollectLock(t) /\ GcIdle
DoCollectMark == \E t \in GcThreads : CollectMark(t) /\ GcIdle
DoCollectSweep == \E t \in GcThreads : CollectSweep(t) /\ GcIdle
DoSetThreshold == \E t \in GcThreads, v \in 0..MaxSize : SetThreshold(t, v) /\ GcIdle

GcNext ==
    \/ DoRegisterObject
    \/ DoRegisterCollect
    \/ DoUnregisterObject
    \/ DoCollectLock
    \/ DoCollectMark
    \/ DoCollectSweep
    \/ DoSetThreshold

GcSpec == GcOnlyInit /\ [][GcNext]_vars

\* A thread inside a GarbageCollector call goes on with it.
GcStep(t) ==
    (RegisterCollect(t) \/ CollectMark(t) \/ CollectSweep(t)) /\ GcIdle

LiveGc == GcSpec /\ \A t \in GcThreads : WF_vars(GcStep(t))

\* ------------------------------------------------- threads and the mutexes
\* The owner and the workers make the calls of the runtime in any order;
\* only the locks are followed.
LockOnlyInit ==
    /\ ChannelInit
    /\ max_size = 0
    /\ CallersInit
    /\ SchedulerInit
    /\ num_threads = 1
    /\ EnvInit

LockIdle == UNCHANGED <<chanVars, callVars, histVars, schedVars, gcVars, sumVars, newVars>>

DoCallLock ==
    \E t \in Threads, call \in GuardedCalls \cup {"collect", "register_object"} :
        CallLock(t, call) /\ LockIdle
DoCallUnlock == \E t \in Threads : CallUnlock(t) /\ LockIdle
DoLockAgain == \E t \in Threads : LockAgain(t) /\ LockIdle
DoChannelLock ==
    \E t \in Threads, c \in ChannelLocks, call \in {"send", "receive", "close", "size"} :
        ChannelLock(t, c, call) /\ LockIdle
DoChannelWait == \E t \in Threads : ChannelWait(t) /\ LockIdle
DoChannelWake == \E t \in Threads : ChannelWake(t) /\ LockIdle
DoChannelUnlock == \E t \in Threads : ChannelUnlock(t) /\ LockIdle
DoLoopLock ==
    \E w \in LockWorkers, call \in {"get_next_fiber", "wait_for"} :
        LoopLock(w, call) /\ LockIdle
DoGetNextFiberReturn == \E w \in LockWorkers : GetNextFiberReturn(w) /\ LockIdle
DoFunctionReturn == \E w \in LockWorkers : FunctionReturn(w) /\ LockIdle
DoLoopWait == \E w \in LockWorkers : LoopWait(w) /\ LockIdle
DoLoopWake == \E w \in LockWorkers : LoopWake(w) /\ LockIdle
DoLoopUnlock == \E w \in LockWorkers : LoopUnlock(w) /\ LockIdle

LockNext ==
    \/ DoCallLock
    \/ DoCallUnlock
    \/ DoLockAgain
    \/ DoChannelLock
    \/ DoChannelWait
    \/ DoChannelWake
    \/ DoChannelUnlock
    \/ DoLoopLock
    \/ DoGetNextFiberReturn
    \/ DoFunctionReturn
    \/ DoLoopWait
    \/ DoLoopWake
    \/ DoLoopUnlock

LockSpec == LockOnlyInit /\ [][LockNext]_vars

\* ------------------------------------ producer and consumer on the pool
\* The owner starts the Scheduler and spawns a producer and a consumer
\* fiber, in either order, on a channel of capacity Items, which is never
\* full: no send waits.
ProdConsInit ==
    /\ buffer = <<>>
    /\ max_size = Items
    /\ closed = FALSE
    /\ not_empty = {}
    /\ not_full = {}
    /\ CallersInit
    /\ SchedulerInit
    /\ EnvInit

Spawned(work) == \E f \in FiberIds : function[f] = work

PcSpawn ==
    /\ running
    /\ \E work \in {"producer", "consumer"} : ~Spawned(work) /\ Spawn(work)
    /\ UNCHANGED <<envVars, chanVars, callVars, histVars>>
DoProducer == \E w \in workers : Producer(w) /\ UNCHANGED envVars
DoConsumer == \E w \in workers : Consumer(w) /\ UNCHANGED envVars

ProdConsNext ==
    \/ DoStart
    \/ PcSpawn
    \/ DoWorkerNext
    \/ DoWorkerIdle
    \/ DoWorkerTimeout
    \/ DoFiberStart
    \/ DoProducer
    \/ DoConsumer
    \/ DoFiberFinish
    \/ DoSpurious

ProdConsSpec == ProdConsInit /\ [][ProdConsNext]_vars

\* A step of worker thread w, the calls of its fiber's work included.
PcWorkerStep(w) ==
    \/ (WorkerNext(w) \/ WorkerIdle(w) \/ WorkerTimeout(w) \/ FiberStart(w) \/ FiberFinish(w))
          /\ UNCHANGED <<envVars, chanVars, callVars, histVars>>
    \/ (Producer(w) \/ Consumer(w)) /\ UNCHANGED envVars

\* The owner and the workers are OS threads that keep running: the owner
\* makes its calls, and a step a worker can take is eventually taken.
LiveProdCons ==
    /\ ProdConsSpec
    /\ WF_vars(DoStart \/ PcSpawn)
    /\ \A w \in Threads : WF_vars(PcWorkerStep(w))

\* ------------------------------------------- the concurrent sum example
\* The NUM_FIBERS summing fibers and the aggregator run on the workers in
\* any interleaving; main waits for the final result.
SumOnlyInit ==
    /\ slice_sum = [i \in 0..(NUM_FIBERS - 1) |-> <<PartialSum32(i), PartialSumWide(i)>>]
    /\ ChannelInit
    /\ max_size = 0
    /\ CallersInit
    /\ SchedulerInit
    /\ num_threads = 1
    /\ NewInit
    /\ GcInit
    /\ roots = {}
    /\ LockInit
    /\ SumInit

SumIdle == UNCHANGED <<chanVars, callVars, histVars, schedVars, gcVars, lockVars, newVars>>

DoSumRangeFiber == \E i \in 0..(NUM_FIBERS - 1) : sum_range_fiber(i) /\ SumIdle
DoAggregatorReceive == AggregatorReceive /\ SumIdle
DoAggregatorSend == AggregatorSend /\ SumIdle
DoMainReceive == MainReceive /\ SumIdle

SumNext ==
    \/ DoSumRangeFiber
    \/ DoAggregatorReceive
    \/ DoAggregatorSend
    \/ DoMainReceive

SumSpec == SumOnlyInit /\ [][SumNext]_vars

\* ------------------------------------------------- threads on the globals
\* Threads call set_global and get_global on one Runtime in any order.
GlobalsOnlyInit ==
    /\ ChannelInit
    /\ max_size = 0
    /\ CallersInit
    /\ SchedulerInit
    /\ num_threads = 1
    /\ EnvInit

GlobalsIdle ==
    UNCHANGED <<chanVars, callVars, histVars, schedVars, gcVars, lockVars, sumVars, instVars, localVars, lexVars>>

DoSetGlobalCall ==
    \E t \in Threads, n \in Names, v \in GlobalValues :
        GlobalLock(t, "set_global", n, Some(v)) /\ GlobalsIdle
DoGetGlobalCall ==
    \E t \in Threads, n \in Names : GlobalLock(t, "get_global", n, nullopt) /\ GlobalsIdle
DoSetGlobal == \E t \in Threads : SetGlobal(t) /\ GlobalsIdle
DoGetGlobal == \E t \in Threads : GetGlobal(t) /\ GlobalsIdle

GlobalsNext ==
    \/ DoSetGlobalCall
    \/ DoGetGlobalCall
    \/ DoSetGlobal
    \/ DoGetGlobal

GlobalsSpec == GlobalsOnlyInit /\ [][GlobalsNext]_vars

\* ------------------------------------------------ threads on get_instance
\* Threads call Runtime::get_instance(), the first calls at the same time.
InstanceIdle ==
    UNCHANGED <<chanVars, callVars, histVars, schedVars, gcVars, lockVars, sumVars, globVars, localVars, lexVars>>

DoGetInstanceTest == \E t \in Threads : GetInstanceTest(t) /\ InstanceIdle
DoGetInstanceNew == \E t \in Threads : GetInstanceNew(t) /\ InstanceIdle
DoGetInstanceAssign == \E t \in Threads : GetInstanceAssign(t) /\ InstanceIdle
DoGetInstanceReturn == \E t \in Threads : GetInstanceReturn(t) /\ InstanceIdle

InstanceNext ==
    \/ DoGetInstanceTest
    \/ DoGetInstanceNew
    \/ DoGetInstanceAssign
    \/ DoGetInstanceReturn

InstanceSpec == GlobalsOnlyInit /\ [][InstanceNext]_vars

\* ------------------------------------------- Fiber objects and their locals
\* Two Fibers constructed by the caller, which calls their operations and
\* set_local / get_local on them in any order.
LocalsIdle ==
    UNCHANGED <<chanVars, callVars, histVars, gcVars, lockVars, sumVars, globVars, instVars, lexVars>>
LocalsKept == LocalsIdle /\ UNCHANGED localVars

LocalNew == NewFiber <= 2 /\ FiberCtor /\ LocalsKept
LocalStartCall == \E f \in FiberIds : StartCall(f) /\ LocalsKept
LocalStartReturn == \E f \in FiberIds : StartReturn(f) /\ LocalsKept
LocalOperate ==
    \E f \in FiberIds, op \in {"yield", "resume", "wait", "finish"} : Operate(f, op) /\ LocalsKept
DoSetLocal ==
    \E f \in FiberIds, k \in Keys, v \in LocalValues :
        SetLocal(f, k, v) /\ LocalsIdle /\ UNCHANGED schedVars
DoGetLocal ==
    \E f \in FiberIds, k \in Keys : GetLocal(f, k) /\ LocalsIdle /\ UNCHANGED schedVars

LocalsNext ==
    \/ LocalNew
    \/ LocalStartCall
    \/ LocalStartReturn
    \/ LocalOperate
    \/ DoSetLocal
    \/ DoGetLocal

LocalsSpec == FiberInit /\ [][LocalsNext]_vars

\* ------------------------------------------------- one Lexer on an input
\* A Lexer is constructed on any input of up to MaxLen characters and
\* tokenize() is called once; nothing else runs.
LexOnlyInit ==
    /\ ChannelInit
    /\ max_size = 0
    /\ CallersInit
    /\ SchedulerInit
    /\ num_threads = 1
    /\ GlobalsInit
    /\ InstanceInit
    /\ LocalsInit
    /\ GcInit
    /\ roots = {}
    /\ LockInit
    /\ SumInit
    /\ traps = FALSE
    /\ slice_sum = <<>>
    /\ LexerInit
    /\ input \in Inputs

LexIdle ==
    UNCHANGED <<chanVars, callVars, histVars, schedVars, gcVars, lockVars, sumVars,
                globVars, instVars, localVars>>

LexNext ==
    \/ LineStartBlank /\ LexIdle
    \/ LineStartIndent /\ LexIdle
    \/ skipComment /\ LexIdle
    \/ handleNewline /\ LexIdle
    \/ skipSpaces /\ LexIdle
    \/ readIdentifierOrKeyword /\ LexIdle
    \/ Unrecognized /\ LexIdle
    \/ TokenizeReturn /\ LexIdle

LexSpec == LexOnlyInit /\ [][LexNext]_vars

\* ---------------------------------------------------------------- C1
\* C1: the Values received so far followed by the Values still buffered are
\* the Values pushed by the successful sends, in push order: receive returns
\* Values in exactly the order in which the sends enqueued them, whatever the
\* interleaving; the Value a receive returns is the one it popped.
C1_FifoOrder ==
    /\ sent = rcvd \o buffer
    /\ (ret.op = "receive" /\ ret.ok) => ret.val = Some(rcvd[Len(rcvd)])

\* Two sends on a channel of capacity >= 2, both buffered, then two receives.
C1_Witness ==
    /\ max_size >= 2
    /\ rcvd = <<1, 2>>
    /\ ret.op = "receive"
    /\ ~ret.waited

\* ---------------------------------------------------------------- C3
\* C3: on a channel of capacity 0 no Value is buffered: whenever no send and
\* no receive is in progress, size() is 0 (a send cannot have returned true
\* without a receive that took its Value).
C3_RendezvousNoBuffer ==
    (max_size = 0 /\ InSend = {} /\ InReceive = {}) => size = 0

\* ---------------------------------------------------------------- C4
\* C4: for a channel with capacity > 0, size() <= capacity() in every
\* reachable state.
C4_SizeWithinCapacity == max_size > 0 => size <= capacity

\* Two senders that were blocked on a full buffer have been unblocked at once.
C4_Witness ==
    /\ IsFull
    /\ Cardinality({t \in Threads : pc[t] = "send_woken"}) >= 2

\* ---------------------------------------------------------------- C5
\* C5: once the channel is closed no step enqueues a Value; a send that
\* returns on a closed channel returns false, whether it had blocked on the
\* full buffer or not, it leaves the buffer as it was, and no send blocks.
C5_NoEnqueueAfterClose ==
    [][closed =>
          /\ sent' = sent
          /\ \A i \in 1..Len(buffer') : buffer'[i] \in {buffer[j] : j \in 1..Len(buffer)}
          /\ (ret'.op = "send" /\ ret' # ret) => (~ret'.ok /\ buffer' = buffer)
          /\ \A t \in Threads :
                /\ (pc[t] = "send_woken" /\ pc'[t] = "idle") => ret' = SendRet(FALSE, TRUE)
                /\ pc'[t] = "send_wait" => pc[t] = "send_wait"]_vars

\* A send that had blocked on the full buffer returned false after the close.
C5_Witness ==
    /\ closed
    /\ IsFull
    /\ ret = SendRet(FALSE, TRUE)

\* ---------------------------------------------------------------- C6
\* C6: on a closed channel no receive blocks; a receive that finds Values
\* returns the oldest one and removes it, and a receive that finds the buffer
\* empty returns nullopt.
C6_DrainAfterClose ==
    /\ [](closed => not_empty = {})
    /\ [][closed =>
             /\ \A t \in Threads : pc'[t] = "recv_wait" => pc[t] = "recv_wait"
             /\ (ret'.op = "receive" /\ ret' # ret) =>
                   IF buffer = <<>>
                   THEN ret'.val = nullopt /\ buffer' = buffer
                   ELSE ret'.val = Some(Head(buffer)) /\ buffer' = Tail(buffer)
             /\ rcvd' # rcvd => (ret'.op = "receive" /\ rcvd' = Append(rcvd, Head(buffer)))
             /\ Len(buffer') <= Len(buffer)]_vars

\* After the close one buffered Value was received and another is left.
C6_Witness ==
    /\ closed
    /\ ret.op = "receive"
    /\ ret.ok
    /\ buffer # <<>>

\* ---------------------------------------------------------------- C7
\* A receive has just freed a slot of an open bounded channel on which
\* senders are blocked.
C7_SlotFreed ==
    /\ ret.op = "receive"
    /\ ret.ok
    /\ max_size > 0
    /\ ~closed
    /\ InSend # {}

\* C7, first half: no Value is pushed while the bounded open channel is full,
\* a blocked send returns only once a receive has removed a Value since it
\* blocked or the channel is closed, and leaves its wait only by being unblocked.
C7_Backpressure ==
    [][/\ (IsFull /\ ~closed) => sent' = sent
       /\ \A t \in Threads :
             /\ (pc[t] = "send_woken" /\ pc'[t] = "idle") => (closed \/ Len(rcvd) > mark[t])
             /\ pc[t] = "send_wait" => pc'[t] \in {"send_wait", "send_woken"}]_vars

\* C7 as written: whenever a receive frees a slot on a still-open channel with
\* blocked senders, one of the blocked senders eventually completes with true
\* (or the channel stops being open).
C7_Original ==
    /\ C7_Backpressure
    /\ C7_SlotFreed ~> ((ret = SendRet(TRUE, TRUE)) \/ closed)

\* C7 as amended: the freed slot is eventually filled by a send that returns
\* true, which is the unblocked sender unless another send call took the
\* mutex first, or the channel is closed.
C7_SlotRefilled ==
    /\ C7_Backpressure
    /\ C7_SlotFreed ~> ((ret.op = "send" /\ ret.ok) \/ closed)

\* A sender that had blocked on the full buffer completed with true.
C7_Witness ==
    /\ ret = SendRet(TRUE, TRUE)
    /\ ~closed

\* ---------------------------------------------------------------- C8
\* C8: close leaves no thread in a wait, and every caller it unblocked
\* returns: a sender with false, a receiver on the empty buffer with nullopt.
C8_CloseReleasesAll ==
    /\ [](closed => (not_empty = {} /\ not_full = {}))
    /\ \A t \in Threads :
          /\ (closed /\ pc[t] = "send_woken")
                ~> (pc[t] = "idle" /\ ret = SendRet(FALSE, TRUE))
          /\ (closed /\ buffer = <<>> /\ pc[t] = "recv_woken")
                ~> (pc[t] = "idle" /\ ret = ReceiveRet(nullopt, TRUE))

\* A blocked sender and a blocked receiver have both been unblocked by close.
C8_Witness ==
    /\ closed
    /\ \E t \in Threads : pc[t] = "send_woken"
    /\ \E t \in Threads : pc[t] = "recv_woken" /\ buffer = <<>>

\* ---------------------------------------------------------------- C9
\* Value v has just been pushed on the empty open channel by a send that
\* returned true, while receivers were blocked in receive.
C9_SentToBlocked(v) ==
    /\ buffer = <<v>>
    /\ ret.op = "send"
    /\ ret.ok
    /\ ~closed
    /\ InReceive # {}

\* C9, the part about single steps: a successful send unblocks exactly one of
\* the receivers blocked on the channel; a blocked receiver returns only
\* after it was unblocked, on an open channel only with the oldest buffered
\* Value, which it removes, and it blocks again when it finds the buffer empty.
C9_WakesExactlyOne ==
    [][/\ (sent' # sent /\ not_empty # {}) =>
             /\ not_empty' \subseteq not_empty
             /\ Cardinality(not_empty') = Cardinality(not_empty) - 1
       /\ \A t \in Threads :
             /\ pc[t] = "recv_wait" => pc'[t] \in {"recv_wait", "recv_woken"}
             /\ (pc[t] = "recv_woken" /\ pc'[t] = "idle" /\ ~closed) =>
                   /\ buffer # <<>>
                   /\ ret' = ReceiveRet(Some(Head(buffer)), TRUE)
                   /\ buffer' = Tail(buffer)
             /\ (pc[t] = "recv_woken" /\ pc'[t] # pc[t] /\ buffer = <<>> /\ ~closed) =>
                   pc'[t] = "recv_wait"]_vars

\* C9 as written: the send makes one of the blocked receivers return, with the
\* Value sent (or the channel stops being open).
C9_Original ==
    /\ C9_WakesExactlyOne
    /\ \A v \in 1..MaxSends :
          C9_SentToBlocked(v) ~> ((ret = ReceiveRet(Some(v), TRUE)) \/ closed)

\* C9 as amended: the send unblocks exactly one blocked receiver and its Value
\* is returned by a receive, which is the unblocked receiver unless another
\* receive call took the mutex first; the others do not return.
C9_SendWakesOne ==
    /\ C9_WakesExactlyOne
    /\ \A v \in 1..MaxSends :
          C9_SentToBlocked(v) ~> (ret.op = "receive" /\ ret.val = Some(v))

\* Two receivers were blocked on the empty open channel; after one send one of
\* them has returned its Value and the other is still blocked.
C9_Witness ==
    /\ ~closed
    /\ sent = <<1>>
    /\ ret = ReceiveRet(Some(1), TRUE)
    /\ \E t \in Threads : pc[t] = "recv_wait"

\* ---------------------------------------------------------------- C10
\* C10: once closed the channel stays closed whatever step follows, and a
\* close() changes neither the flag of a closed channel nor the buffer.
C10_CloseMonotonic ==
    [][/\ closed => closed'
       /\ (ret'.op = "close" /\ ret' # ret) => (closed' /\ buffer' = buffer)]_vars

\* A second close() ran on a closed channel that still holds a Value.
C10_Witness ==
    /\ ret = CloseRet(FALSE)
    /\ is_closed
    /\ buffer # <<>>

\* ---------------------------------------------------------------- C2
\* Every worker of the running pool is inside a receive that one of its
\* fibers made on the empty open channel and that is blocked.
AllWorkersBlockedInReceive ==
    /\ running
    /\ ~closed
    /\ buffer = <<>>
    /\ \A w \in workers : wpc[w] = "called" /\ pc[w] = "recv_wait"

\* Fiber f is Ready in the ready queue and its work sends on the channel.
ReadySender(f) ==
    /\ state[f] = "READY"
    /\ function[f] = "send"
    /\ \E i \in 1..Len(ready_queue) : ready_queue[i] = f

\* C2: a fiber blocked in receive does not occupy its worker: when every
\* worker's fiber is blocked in receive and a Ready fiber that will send is
\* queued, that fiber is eventually dispatched (while the scheduler runs).
C2_BlockedFiberFreesWorker ==
    \A f \in FiberIds :
        (AllWorkersBlockedInReceive /\ ReadySender(f)) ~> (state[f] # "READY" \/ ~running)

\* ---------------------------------------------------------------- C11
\* Fiber f is an element of the queue or list q.
InSeq(f, q) == \E i \in 1..Len(q) : q[i] = f

\* How many of ready queue, running set and waiting set hold fiber f.
SetsHolding(f) ==
    (IF InSeq(f, ready_queue) THEN 1 ELSE 0)
    + (IF InSeq(f, running_fibers) THEN 1 ELSE 0)
    + (IF InSeq(f, waiting_fibers) THEN 1 ELSE 0)

\* C11: every fiber that spawn has enqueued is in exactly one of the ready
\* queue, the running set and the waiting set while it is not Finished, and
\* in none of them once it is Finished.
C11_ExactlyOneSet ==
    \A f \in FiberIds :
        InSeq(f, enqueued) =>
            SetsHolding(f) = IF state[f] = "FINISHED" THEN 0 ELSE 1

\* ---------------------------------------------------------------- C12
\* Fiber f exists and its work has not finished.
Unfinished(f) == state[f] \in {"READY", "RUNNING", "WAITING"}

\* C12: the step in which wait_all returns is taken in a state where the
\* ready queue, the running set and the waiting set are all empty, and in
\* which no fiber, spawned by the owner or by another fiber, is unfinished.
C12_WaitAllQuiescent ==
    [][(mpc = "wait_all" /\ mpc' = "idle") =>
          /\ ready_queue = <<>>
          /\ running_fibers = <<>>
          /\ waiting_fibers = <<>>
          /\ \A f \in FiberIds : ~Unfinished(f)]_vars

\* wait_all has returned on a running scheduler whose workers are alive.
C12_Witness ==
    /\ returned = "wait_all"
    /\ mpc = "idle"
    /\ running
    /\ workers # {}

\* ---------------------------------------------------------------- C13
\* C13: on a running scheduler whose tasks all return, a call of wait_all
\* eventually returns.
C13_WaitAllReturns == (mpc = "wait_all" /\ running) ~> (mpc = "idle")

\* ---------------------------------------------------------------- C14
\* C14: when the work of a fiber has raised, that fiber is Errored, and
\* neither the worker that ran it nor any other thread has been terminated.
C14_FailureIsolated ==
    \A w \in Threads :
        wpc[w] = "raised" =>
            /\ state[cur[w]] = "ERROR"
            /\ mpc # "terminate"
            /\ \A v \in workers : wpc[v] # "terminate"

\* ---------------------------------------------------------------- C15
\* The state changes of the Fiber state machine; the first is construction.
LegalMoves ==
    { <<"NONE", "READY">>,
      <<"READY", "RUNNING">>,
      <<"RUNNING", "WAITING">>,
      <<"WAITING", "READY">>,
      <<"RUNNING", "FINISHED">>,
      <<"RUNNING", "ERROR">> }

\* C15: every change of a fiber's state is one of Ready->Running,
\* Running->Waiting, Waiting->Ready, Running->Finished, Running->Errored;
\* so Waiting->Running never happens and a Finished or Errored fiber keeps
\* its state.
C15_LegalTransitions ==
    [][\A f \in FiberIds :
          state'[f] # state[f] => <<state[f], state'[f]>> \in LegalMoves]_vars

\* ---------------------------------------------------------------- C16
\* C16: the fibers dequeued so far followed by the fibers still in the
\* ready queue are the fibers enqueued, in the order in which the spawns
\* pushed them: a fiber whose spawn completed first is dequeued first,
\* whatever the number of workers.
C16_FifoDispatch == enqueued = dequeued \o ready_queue

\* Three fibers were dequeued in push order, which is not the order of
\* their construction: the spawn made by a task pushed after the owner's.
C16_Witness == dequeued = <<1, 3, 2>>

\* ---------------------------------------------------------------- C17
\* C17: while the scheduler is running, a ready queue that holds fibers is
\* eventually found empty: every fiber that spawn enqueued is eventually
\* dequeued by a worker, also when spawn's notify_one found no worker
\* waiting.
C17_SpawnedIsDispatched ==
    (ready_queue # <<>>) ~> (ready_queue = <<>> \/ ~running)

\* The wake signal was lost: every worker of the running pool is inside
\* wait_for while a fiber sits in the ready queue.
C17_Witness ==
    /\ running
    /\ workers # {}
    /\ ready_queue # <<>>
    /\ \A w \in workers : wpc[w] = "cv_wait"

\* ---------------------------------------------------------------- C18
\* C18: outside stop's joins the pool has exactly num_threads worker
\* threads when the scheduler is running and none when it is stopped, and
\* never more than num_threads; a start on a running scheduler and a stop
\* on a stopped one change neither the flag nor the threads.
C18_LifecycleIdempotent ==
    /\ [](Cardinality(workers) =
             IF running \/ mpc = "joining" THEN num_threads ELSE 0)
    /\ [][(returned' # returned /\ returned' \in {"start_noop", "stop_noop"}) =>
             UNCHANGED <<running, workers, wpc, worker_condition>>]_vars

\* start was called on a running scheduler that had been stopped and
\* started again before.
C18_Witness ==
    /\ returned = "start_noop"
    /\ running
    /\ Cardinality(workers) = num_threads
    /\ num_threads = MaxWorkers
    /\ \E f \in FiberIds : state[f] = "FINISHED"

\* ---------------------------------------------------------------- C19
\* C19: the step in which stop returns is taken when every worker thread
\* has left worker_loop and no fiber is Running, and it leaves no worker.
C19_StopJoinsWorkers ==
    [][(mpc = "joining" /\ mpc' = "idle") =>
          /\ \A w \in workers : wpc[w] = "exited"
          /\ \A w \in Threads : cur[w] = NoFiber
          /\ \A f \in FiberIds : state[f] # "RUNNING"
          /\ workers' = {}]_vars

\* stop returned after the pool ran a fiber, leaving a Ready fiber queued.
C19_Witness ==
    /\ returned = "stop"
    /\ ~running
    /\ \E f \in FiberIds : state[f] = "FINISHED"
    /\ ready_queue # <<>>

\* ---------------------------------------------------------------- C20
\* C20: fiber ids are unique and strictly increasing in creation order.
C20_UniqueIds ==
    \A f, g \in FiberIds :
        (f < g /\ state[f] # "NONE" /\ state[g] # "NONE") => id[f] < id[g]

\* ---------------------------------------------------------------- C21
\* A thread is inside collect(), called directly or by register_object.
InCollect(t) == gpc[t] \in {"collect", "nested_collect", "marked", "nested_marked"}

\* A step of a collect().
CollectStep == \E t \in GcThreads : InCollect(t) /\ gpc'[t] # gpc[t]

\* C21: no step of a collect(), called directly or from register_object
\* above the threshold, removes a registered object that is reachable from
\* the roots.
C21_ReachableSurvives ==
    [][CollectStep => \A p \in roots : Registered(p) => Registered(p)']_vars

\* A collect() that register_object called has returned with every root
\* registered.
C21_Witness ==
    /\ gret.op = "register_collected"
    /\ roots # {}
    /\ \A p \in roots : Registered(p)

\* ---------------------------------------------------------------- C22
\* The registered identities that no root reaches.
Unreachable == {p \in Ptrs \ roots : Registered(p)}

\* The step in which a collect() sweeps and returns.
SweepStep == \E t \in GcThreads : gpc[t] \in {"marked", "nested_marked"} /\ gpc'[t] = "idle"

\* C22: when collect() returns, every object that was registered and
\* unreachable is gone and total_memory() is lower by exactly their sizes.
C22_UnreachableCollected ==
    [][SweepStep =>
          /\ \A p \in Unreachable : ~Registered(p)'
          /\ total_allocated' = total_allocated - SizeSum(Unreachable)]_vars

\* ---------------------------------------------------------------- C23
\* C23: total_memory() is the sum of the sizes of the registered objects.
C23_TotalIsSumOfSizes ==
    total_memory = SizeSum({p \in Ptrs : Registered(p)})

\* ---------------------------------------------------------------- C24
\* C24: a register_object that raised the total above the threshold runs
\* its collection and returns.
C24_RegisterReturns ==
    \A t \in GcThreads : (gpc[t] = "register_collect") ~> (gpc[t] = "idle")

\* ---------------------------------------------------------------- C25
\* A thread is between the mark phase and the end of the sweep.
BetweenMarkAndSweep(c) == gpc[c] \in {"marked", "nested_marked"}

\* C25: a collect() between its mark phase and the end of its sweep owns
\* gc_mutex, and a step that is not its own leaves the registry and the
\* byte total as they are.
C25_SweepUndisturbed ==
    /\ [](\A c \in GcThreads : BetweenMarkAndSweep(c) => gc_mutex = c)
    /\ [][\A c \in GcThreads :
            BetweenMarkAndSweep(c) /\ gpc'[c] = gpc[c] =>
                UNCHANGED <<objects, total_allocated>>]_vars

\* A collect() is between mark and sweep over a registered object while
\* another thread is free to call the GarbageCollector.
C25_Witness ==
    \E c, t \in GcThreads :
        /\ c # t
        /\ gpc[c] = "marked"
        /\ gpc[t] = "idle"
        /\ \E p \in Ptrs : Registered(p)

\* ---------------------------------------------------------------- C26
\* C26: an unregister_object that did not find its identity returns an
\* error.
C26_MisuseReported ==
    (gret.op = "unregister" /\ ~gret.found) => gret.error

\* ---------------------------------------------------------------- C27
\* C27: after registrations of n new identities whose sizes sum to at most
\* the threshold, allocated_objects() is n and total_memory() is the sum;
\* a collect() then removes no object while all of them are roots.
C27_RegisteredAreCounted ==
    /\ [](plain.ok /\ plain.sum <= memory_threshold =>
            allocated_objects = plain.n /\ total_memory = plain.sum)
    /\ [][SweepStep /\ plain.ok /\ Unreachable = {} =>
            \A p \in Ptrs : Registered(p)' = Registered(p)]_vars

\* Two new identities are registered below the threshold, all roots, and a
\* collect() has returned.
C27_Witness ==
    /\ plain.ok
    /\ plain.n = 2
    /\ plain.sum <= memory_threshold
    /\ Unreachable = {}
    /\ gret.op = "collect"

\* ---------------------------------------------------------------- C28
\* C28: no thread owns two of the runtime's mutexes at once, and a worker
\* inside the function() of a fiber owns queue_mutex only inside a call of
\* the Scheduler that function() made.
C28_OneLockAtATime ==
    /\ \A t \in Threads : Cardinality(holds[t]) <= 1
    /\ \A w \in LockWorkers :
           inwork[w] /\ "queue_mutex" \in holds[w] => LockOf(lpc[w]) = "queue_mutex"

\* A worker inside function() owns a channel's mutex while the owner is in
\* wait_all with queue_mutex and a third thread owns gc_mutex.
C28_Witness ==
    \E w \in LockWorkers :
        /\ inwork[w]
        /\ holds[w] \cap ChannelLocks # {}
        /\ lpc[MainThread] = "wait_all"
        /\ \E u \in Threads : "gc_mutex" \in holds[u]

\* ---------------------------------------------------------------- C29
\* The Values the producer sends, in send order.
ProdConsValues == [i \in 1..Items |-> i]

IsPrefix(s, q) == Len(s) <= Len(q) /\ \A i \in 1..Len(s) : s[i] = q[i]

\* The fiber with this work has finished.
Finished(work) == \E f \in FiberIds : function[f] = work /\ state[f] = "FINISHED"

\* C29: the consumer receives the producer's Values in send order, and in
\* the end both fibers have finished and the consumer has received all of
\* them, with one worker or more and either spawn order.
C29_ProducerConsumer ==
    /\ [](IsPrefix(rcvd, ProdConsValues))
    /\ [](Finished("consumer") => rcvd = ProdConsValues)
    /\ <>(Finished("producer") /\ Finished("consumer"))

\* ---------------------------------------------------------------- C30
\* 500000500000 = 7629402 * 65536 + 10528, the sum of 1..1000000
ExpectedTotal == <<7629402, 10528>>

\* C30: when the aggregator has received the NUM_FIBERS partial sums, its
\* total is 500000500000.
C30_ExactTotal ==
    agg_pc = "done" => Wide(total_sum) = ExpectedTotal

\* ---------------------------------------------------------------- C31
\* The value of the last set_global on name n in the log of completed
\* calls, or nullopt.
RECURSIVE LastSet(_, _)
LastSet(log, n) ==
    IF log = <<>> THEN nullopt
    ELSE IF log[Len(log)][1] = n THEN log[Len(log)][2]
    ELSE LastSet(SubSeq(log, 1, Len(log) - 1), n)

\* C31: a get_global returns the value of the most recent completed
\* set_global on its name, or no value when there was none; a set_global
\* leaves the value of every other name as it was.
C31_GlobalsTable ==
    [][\A t \in Threads :
          /\ gl_pc[t].op = "get_global" /\ gl_pc'[t] = NoCall =>
                gl_ret'.val = LastSet(set_log, gl_pc[t].name)
          /\ gl_pc[t].op = "set_global" /\ gl_pc'[t] = NoCall =>
                \A m \in Names \ {gl_pc[t].name} : globals'[m] = globals[m]]_vars

\* A get_global has returned the second value set on its name while the
\* other name holds a value too.
C31_Witness ==
    /\ gl_ret.op = "get_global"
    /\ gl_ret.val # nullopt
    /\ Len(set_log) = MaxSets
    /\ \E i \in 1..Len(set_log) :
          set_log[i][1] = gl_ret.name /\ set_log[i][2] # gl_ret.val
    /\ \A n \in Names : globals[n] # nullopt

\* ---------------------------------------------------------------- C32
\* C32: at most one Runtime is ever constructed by get_instance(), and all
\* the calls that returned, returned the same Runtime.
C32_OneInstance ==
    /\ runtimes <= 1
    /\ \A t, u \in Threads : got[t] # nullptr /\ got[u] # nullptr => got[t] = got[u]

\* ---------------------------------------------------------------- C33
\* C33: a get_local returns the value of the latest set_local on its fiber
\* and key, or no value when there was none, and a step that changes the
\* state of a fiber (start, yield, resume, wait, finish) leaves every
\* local-storage table as it was.
C33_LocalsPersist ==
    [][/\ loc_ret' # loc_ret => loc_ret'.val = last_set[loc_ret'.fiber][loc_ret'.key]
       /\ state' # state => locals' = locals]_vars
C33_Witness ==
    /\ loc_ret.fiber # NoFiber
    /\ loc_ret.val = Some(2)
    /\ state[loc_ret.fiber] = "FINISHED"
    /\ locals[loc_ret.fiber][loc_ret.key] = Some(2)
    /\ \E k \in Keys : locals[loc_ret.fiber][k] = Some(1)

\* ---------------------------------------------------------------- C34
\* C34: the work of a spawned fiber is invoked at most once, whatever the
\* number of workers and the start, stop and spawn calls made: no fiber is
\* dequeued twice, no two workers hold the same fiber, a worker enters the
\* work only of a fiber it found READY, and a fiber that has left READY
\* never is READY again.
C34_InvokedOnce ==
    /\ [](/\ \A i, j \in 1..Len(dequeued) : dequeued[i] = dequeued[j] => i = j
          /\ \A w, v \in Threads : cur[w] # NoFiber /\ cur[w] = cur[v] => w = v)
    /\ [][/\ \A w \in Threads :
                wpc[w] = "got" /\ wpc'[w] = "work" =>
                    state[cur[w]] = "READY" /\ state'[cur[w]] = "RUNNING"
          /\ \A f \in FiberIds :
                state[f] \in {"RUNNING", "FINISHED"} => state'[f] # "READY"]_vars
\* Two workers are inside the works of two fibers while stop waits for
\* them, and a third fiber is still queued.
C34_Witness ==
    /\ \E w, v \in workers : w # v /\ wpc[w] = "work" /\ wpc[v] = "work"
    /\ mpc = "joining"
    /\ ready_queue # <<>>

\* ---------------------------------------------------------------- C35
\* C35: in every state the number of sends that returned true is the number
\* of Values receive returned plus size(); the Value a receive returns was
\* pushed by a send that returned true before and was returned by no
\* receive before (the Values sent all differ), and no Value sent is lost:
\* it was received or is still buffered.
C35_Conservation ==
    /\ [](/\ Len(sent) = Len(rcvd) + size
          /\ \A i \in 1..Len(sent) :
                Cardinality({j \in 1..Len(rcvd) : rcvd[j] = sent[i]})
                  + Cardinality({j \in 1..Len(buffer) : buffer[j] = sent[i]}) = 1)
    /\ [][rcvd' # rcvd =>
            /\ Len(rcvd') = Len(rcvd) + 1
            /\ ret'.op = "receive" /\ ret'.val = Some(rcvd'[Len(rcvd')])
            /\ \E i \in 1..Len(sent) : sent[i] = rcvd'[Len(rcvd')]
            /\ \A j \in 1..Len(rcvd) : rcvd[j] # rcvd'[Len(rcvd')]]_vars
\* Two Values were received, a third is buffered, the channel is closed
\* and a send has returned false.
C35_Witness ==
    /\ Len(rcvd) = 2
    /\ size = 1
    /\ closed
    /\ ret.op = "send" /\ ~ret.ok

\* ---------------------------------------------------------------- C36
\* C36 as stated: from the call of stop (running is cleared) to the next
\* start no fiber leaves the ready queue and no Ready fiber is run.
C36_Original ==
    [][(~running /\ ~running') =>
          /\ IsPrefix(ready_queue, ready_queue')
          /\ \A f \in FiberIds : state[f] = "READY" => state'[f] = "READY"]_vars

\* C36: while the scheduler is stopped (stop has returned, or start was
\* never called) there is no worker thread, no fiber leaves the ready queue
\* and no Ready fiber is run; the return of stop and the next start leave
\* the queue as it is, start brings up num_threads workers each time, and
\* once the scheduler runs the queued fibers are dispatched.
C36_QueueSurvivesStop ==
    /\ [](~running /\ mpc = "idle" => workers = {})
    /\ [][/\ (~running /\ mpc = "idle" /\ ~running') =>
                /\ IsPrefix(ready_queue, ready_queue')
                /\ \A f \in FiberIds : state[f] = "READY" => state'[f] = "READY"
          /\ (mpc = "joining" /\ mpc' = "idle") => ready_queue' = ready_queue
          /\ (~running /\ running') =>
                /\ ready_queue' = ready_queue
                /\ Cardinality(workers') = num_threads]_vars
    /\ (running /\ ready_queue # <<>>) ~> (~running \/ ready_queue = <<>>)
\* The scheduler is stopped after it ran a fiber, and two fibers are queued.
C36_Witness ==
    /\ ~running /\ mpc = "idle" /\ workers = {}
    /\ \E f \in FiberIds : state[f] = "FINISHED"
    /\ Len(ready_queue) = 2

\* ---------------------------------------------------------------- C37
\* The number of tokens of one type among the first k tokens
CountType(type, k) == Cardinality({i \in 1..k : tokens[i].type = type})

\* C37: when tokenize has returned, the tokens hold as many INDENT as
\* DEDENT, no prefix of them holds more DEDENT than INDENT, and END_OF_FILE
\* is the last token and no other.
C37_Balanced ==
    lex_pc = "returned" =>
        /\ CountType("INDENT", Len(tokens)) = CountType("DEDENT", Len(tokens))
        /\ \A k \in 1..Len(tokens) : CountType("DEDENT", k) <= CountType("INDENT", k)
        /\ tokens # <<>>
        /\ tokens[Len(tokens)].type = "END_OF_FILE"
        /\ CountType("END_OF_FILE", Len(tokens)) = 1
\* tokenize returned on an input with two indented blocks: the first is
\* closed by the DEDENT of a later line, the second when the input ends.
C37_Witness ==
    /\ lex_pc = "returned"
    /\ CountType("INDENT", Len(tokens)) = 2
    /\ \E k \in 1..(Len(tokens) - 1) :
          tokens[k].type = "DEDENT" /\ tokens[k + 1].type = "IDENTIFIER"
    /\ tokens[Len(tokens) - 1].type = "DEDENT"

\* ---------------------------------------------------------------- C38
\* The number of line breaks in the input
LineBreaks == Cardinality({i \in 1..Len(input) : input[i] = NL})

\* C38: when tokenize has returned, every token of a line that a line
\* break ends is followed by the NEWLINE of that line, with nothing but
\* tokens of the same line between them.
C38_NewlineEndsLine ==
    lex_pc = "returned" =>
        \A i \in 1..Len(tokens) :
            tokens[i].type = "IDENTIFIER" /\ tokens[i].line <= LineBreaks =>
                \E k \in (i + 1)..Len(tokens) :
                    /\ tokens[k].type = "NEWLINE"
                    /\ tokens[k].line = tokens[i].line
                    /\ \A j \in (i + 1)..(k - 1) :
                          tokens[j].type = "IDENTIFIER" /\ tokens[j].line = tokens[i].line

\* ---------------------------------------------------------------- C39
\* A step of tokenize that measures the indentation of a line: at the
\* start of a line, or behind the line break that precedes it.
MeasuresLine == (AtTop /\ atLineStart) \/ (InBody /\ peek(index) = NL)
LineBegin == IF AtTop /\ atLineStart THEN index ELSE index + 1
LineIndent == SkipRun(LineBegin, " ") - LineBegin
\* The line is empty, spaces only, or a comment only.
LineIsBlank ==
    \/ peek(LineBegin + LineIndent) \in {NL, "#"}
    \/ peek(LineBegin + LineIndent) = NUL /\ LineIndent > 0
LineHasCode == peek(LineBegin + LineIndent) = "a"

\* C39: a line with code whose indentation is smaller than the current
\* level and is none of the levels on the stack makes tokenize throw the
\* IndentationError; an empty line, a line of spaces and a comment-only
\* line leave the stack as it is and throw no IndentationError.
C39_IndentationChecked ==
    [][MeasuresLine =>
          /\ (/\ LineHasCode
              /\ LineIndent < indentStack[Len(indentStack)]
              /\ \A k \in 1..Len(indentStack) : indentStack[k] # LineIndent)
                => lex_pc' = "IndentationError"
          /\ LineIsBlank =>
                indentStack' = indentStack /\ lex_pc' # "IndentationError"]_vars

====
